---- MODULE Spec2Model ----
(***************************************************************************)
(* A model of the span-based songbook parser                               *)
(* (src/lang/hr/01_src/parser/pymupdf_span_parser.py): the classification  *)
(* of positioned text lines, the merge of chord fragments, the mapping of  *)
(* chord pixel positions to lyric character offsets and the verse builder. *)
(*                                                                         *)
(* Text is a sequence of one-character strings.  Program indices and       *)
(* offsets are 0-based, as in the source; sequences here are 1-based.      *)
(* Pixel coordinates are integers; a chord's pixel x, which the source     *)
(* computes as start + (index / length) * width, is kept as the exact      *)
(* fraction num / den.                                                     *)
(***************************************************************************)
EXTENDS Integers, Sequences, FiniteSets, TLC

VARIABLES
    doc,                  \* the lines the PDF reader yields, in block order
    song_name,            \* the caller-supplied name
    pc,                   \* the position of parse_and_export
    k,                    \* _extract_span_data: lines classified so far
    raw_chord_lines,      \* _extract_span_data: chord_lines before the merge
    chord_lines,          \* the combined chord lines
    text_lines,
    title_lines,
    kapodaster_lines,
    comment_lines,
    title,
    kapodaster,
    comments,
    text_lines_sorted,    \* _parse_verses_...: the verse builder's state
    processed_indices,
    i,
    current_role,
    current_verse_lines,
    verses,
    call,                 \* a function called on its own: its name and arguments
    result,               \* what the call returned
    additional_titles,    \* the field of that name of the special parser
    counter_file,         \* 04_chordpro/.song_counter: whether it exists, its content
    cli                   \* main(): per invocation its position and its locals

vars == <<doc, song_name, pc, k, raw_chord_lines, chord_lines, text_lines,
          title_lines, kapodaster_lines, comment_lines, title, kapodaster,
          comments, text_lines_sorted, processed_indices, i, current_role,
          current_verse_lines, verses, call, result, additional_titles,
          counter_file, cli>>

cli_vars == <<counter_file, cli>>

----------------------------------------------------------------------------
(* Characters and the string operations of the source language.            *)

UpperChars == <<"A","B","C","D","E","F","G","H","I","J","K","L","M",
                "N","O","P","Q","R","S","T","U","V","W","X","Y","Z">>
LowerChars == <<"a","b","c","d","e","f","g","h","i","j","k","l","m",
                "n","o","p","q","r","s","t","u","v","w","x","y","z">>
DigitChars == <<"0","1","2","3","4","5","6","7","8","9">>

isspace(c) == c = " "
isupper_char(c) == \E n \in DOMAIN UpperChars : UpperChars[n] = c
islower_char(c) == \E n \in DOMAIN LowerChars : LowerChars[n] = c
isdigit(c) == \E n \in DOMAIN DigitChars : DigitChars[n] = c

lower_char(c) ==
    IF isupper_char(c)
    THEN LowerChars[CHOOSE n \in DOMAIN UpperChars : UpperChars[n] = c]
    ELSE c

lower(s) == [n \in DOMAIN s |-> lower_char(s[n])]

\* str.isupper(): some cased character, and no lowercase one
isupper(s) ==
    /\ \E n \in DOMAIN s : isupper_char(s[n])
    /\ \A n \in DOMAIN s : ~islower_char(s[n])

Max(a, b) == IF a >= b THEN a ELSE b
Min(a, b) == IF a <= b THEN a ELSE b
Abs(a) == IF a < 0 THEN 0 - a ELSE a
MinOf(S) == CHOOSE n \in S : \A m \in S : n <= m

RECURSIVE lstrip(_)
lstrip(s) == IF s # <<>> /\ isspace(Head(s)) THEN lstrip(Tail(s)) ELSE s

RECURSIVE rstrip(_)
rstrip(s) ==
    IF s # <<>> /\ isspace(s[Len(s)])
    THEN rstrip(SubSeq(s, 1, Len(s) - 1))
    ELSE s

strip(s) == rstrip(lstrip(s))

startswith(s, p) == Len(p) <= Len(s) /\ SubSeq(s, 1, Len(p)) = p

endswith(s, p) ==
    Len(p) <= Len(s) /\ SubSeq(s, Len(s) - Len(p) + 1, Len(s)) = p

\* the 0-based indices >= from where w occurs in s
Occurrences(s, w, from) ==
    {n \in from..(Len(s) - Len(w)) : SubSeq(s, n + 1, n + Len(w)) = w}

\* p in s
contains(s, p) == Occurrences(s, p, 0) # {}

\* s.find(w, from): the lowest 0-based index >= from where w occurs, or -1
find(s, w, from) ==
    IF Occurrences(s, w, from) = {} THEN -1 ELSE MinOf(Occurrences(s, w, from))

\* the 1-based index of the first whitespace of t, or Len(t) + 1
WordEnd(t) ==
    IF \A n \in DOMAIN t : ~isspace(t[n]) THEN Len(t) + 1
    ELSE MinOf({n \in DOMAIN t : isspace(t[n])})

\* s.split(): the whitespace-delimited words
RECURSIVE split(_)
split_words(t) ==
    IF t = <<>> THEN <<>>
    ELSE <<SubSeq(t, 1, WordEnd(t) - 1)>>
         \o split(SubSeq(t, WordEnd(t), Len(t)))

split(s) == split_words(lstrip(s))

\* s.replace(p, ''): every non-overlapping occurrence of p removed, left to right
RECURSIVE remove_all(_, _)
remove_all(s, p) ==
    IF s = <<>> THEN <<>>
    ELSE IF startswith(s, p) THEN remove_all(SubSeq(s, Len(p) + 1, Len(s)), p)
    ELSE <<Head(s)>> \o remove_all(Tail(s), p)

Spaces(n) == [m \in 1..n |-> " "]

\* sorted(s, key=...): the stable sort of s by the integer keys keys[n]
sorted_by(s, keys) ==
    LET rank(n) == Cardinality({m \in DOMAIN s :
                        keys[m] < keys[n] \/ (keys[m] = keys[n] /\ m < n)}) + 1
    IN  [r \in DOMAIN s |-> s[CHOOSE n \in DOMAIN s : rank(n) = r]]

----------------------------------------------------------------------------
(* The parser's tables (__init__).                                         *)

role_markers ==
    << <<"K",".","+","Z",".">>, <<"K",".","+","P",".">>,
       <<"K",".">>, <<"Z",".">>, <<"P",".">>, <<"D",".">> >>

\* sorted(self.role_markers, key=len, reverse=True)
role_markers_longest_first ==
    sorted_by(role_markers, [n \in DOMAIN role_markers |-> 0 - Len(role_markers[n])])

base_chords ==
    { <<"e">>, <<"f">>, <<"f","i","s">>, <<"g">>, <<"g","i","s">>, <<"a">>,
      <<"b">>, <<"h">>, <<"c">>, <<"c","i","s">>, <<"d">>, <<"d","i","s">>,
      <<"E">>, <<"F">>, <<"F","I","S">>, <<"G">>, <<"G","I","S">>, <<"A">>,
      <<"B">>, <<"H">>, <<"C">>, <<"C","I","S">>, <<"D">>, <<"D","I","S">> }

chord_suffixes ==
    { <<"7">>, <<"9">>, <<"1","1">>, <<"1","3">>,
      <<"s","u","s","2">>, <<"s","u","s","4">>, <<"m","a","j","7">>,
      <<"m","i","n","7">>, <<"d","i","m">>, <<"a","u","g">>,
      <<"a","d","d","9">> }

valid_chords ==
    base_chords
    \cup {b \o x : b \in base_chords, x \in chord_suffixes}
    \cup { <<"*">>, <<"d","*">> }

\* Arial advance widths, 1000 units per em (the grave accent, 333 in the
\* code's table, has no string literal here and is in no document)
arial_char_widths ==
    [c \in {"A","B","E","K","P","S","V","X","Y","&"} |-> 667]
    @@ [c \in {"C","D","H","N","R","U","w"} |-> 722]
    @@ [c \in {"F","T","Z"} |-> 611]
    @@ [c \in {"G","O","Q"} |-> 778]
    @@ [c \in {"I","f","t"," ",".",",",":",";","[","]","/","\\"} |-> 278]
    @@ [c \in {"J","c","k","s","v","x","y","z"} |-> 500]
    @@ [c \in {"L","a","b","d","e","g","h","n","o","p","q","u","?","_",
               "$","#","0","1","2","3","4","5","6","7","8","9"} |-> 556]
    @@ [c \in {"M","m"} |-> 833]
    @@ [c \in {"W"} |-> 944]
    @@ [c \in {"i","j","l"} |-> 222]
    @@ [c \in {"r","!","(",")","-"} |-> 333]
    @@ [c \in {"\""} |-> 355]
    @@ [c \in {"'"} |-> 191]
    @@ [c \in {"{","}"} |-> 334]
    @@ [c \in {"=","+","~"} |-> 584]
    @@ [c \in {"*"} |-> 389]
    @@ [c \in {"|"} |-> 260]
    @@ [c \in {"%"} |-> 889]
    @@ [c \in {"@"} |-> 1015]
    @@ [c \in {"^"} |-> 469]

\* get_char_width in thousandths of a pixel: font units * font size
get_char_width(c, font_size) ==
    (IF c \in DOMAIN arial_char_widths THEN arial_char_widths[c] ELSE 556)
    * font_size

----------------------------------------------------------------------------
(* Classification predicates.                                              *)

kapodaster_word == <<"k","a","p","o","d","a","s","t","e","r">>
kapo_word == <<"k","a","p","o">>
bez_word == <<"b","e","z",":">>

_looks_like_chord(word) ==
    IF word \in valid_chords THEN TRUE
    ELSE IF contains(word, <<" ">>)
    THEN \E n \in DOMAIN split(word) : split(word)[n] \in valid_chords
    ELSE \E n \in 1..(Len(word) - 1) :
            /\ SubSeq(word, 1, n) \in valid_chords
            /\ SubSeq(word, n + 1, Len(word)) \in valid_chords

chord_count(words) ==
    Cardinality({n \in DOMAIN words : _looks_like_chord(words[n])})

\* chord_heavy with the threshold reached at 60% already: the variant the
\* chord-line property C10 must tell from the code's test
chord_heavy_from_60(words) ==
    IF words = <<>> THEN FALSE
    ELSE chord_count(words) * 10 >= 6 * Len(words)

\* (chord_count / len(words)) > 0.6
chord_heavy(words) ==
    IF words = <<>> THEN FALSE
    ELSE chord_count(words) * 10 > 6 * Len(words)

_is_chord_line_text(text) == chord_heavy(split(text))

\* the lowest index >= n of s whose character is not in the class cls
\* ("space", "lower", "open": any character but ')', "word": any character
\* but a space), or Len(s) + 1
InClass(c, cls) ==
    CASE cls = "space" -> isspace(c)
      [] cls = "lower" -> islower_char(c)
      [] cls = "open" -> c # ")"
      [] cls = "word" -> ~isspace(c)

SkipWhile(s, n, cls) ==
    IF \A m \in n..Len(s) : InClass(s[m], cls) THEN Len(s) + 1
    ELSE MinOf({m \in n..Len(s) : ~InClass(s[m], cls)})

\* whether  -\s*[A-Z][a-z]+\s*\d  matches s at the dash at index d
DigitAt(s, c) == c <= Len(s) /\ isdigit(s[c])

RefDigits(s, a, b) == b > a + 1 /\ DigitAt(s, SkipWhile(s, b, "space"))

RefName(s, a) ==
    /\ a <= Len(s)
    /\ isupper_char(s[a])
    /\ RefDigits(s, a, SkipWhile(s, a + 1, "lower"))

RefAt(s, d) ==
    /\ d \in DOMAIN s
    /\ s[d] = "-"
    /\ RefName(s, SkipWhile(s, d + 1, "space"))

\* re.sub(r'\s*-\s*[A-Z][a-z]+\s*\d+[^)]*(\([^)]*\))?', '', s): a match runs
\* from the whitespace before the dash up to the next ')' or the end (the
\* greedy [^)]* leaves the optional group nothing to match)
RECURSIVE sub_biblical_reference(_)
sub_reference_at(s, d) ==
    SubSeq(s, 1, MinOf({p \in 1..d : \A q \in p..(d - 1) : isspace(s[q])}) - 1)
    \o sub_biblical_reference(SubSeq(s, SkipWhile(s, d, "open"), Len(s)))

sub_biblical_reference(s) ==
    IF \A d \in DOMAIN s : ~RefAt(s, d) THEN s
    ELSE sub_reference_at(s, MinOf({d \in DOMAIN s : RefAt(s, d)}))

\* re.sub(r'\([^)]*\)', '', s)
RECURSIVE sub_parentheses(_)
sub_parentheses_at(s, p) ==
    SubSeq(s, 1, p - 1)
    \o sub_parentheses(SubSeq(s, SkipWhile(s, p + 1, "open") + 1, Len(s)))

OpenClosed(s, p) == s[p] = "(" /\ \E q \in (p + 1)..Len(s) : s[q] = ")"

sub_parentheses(s) ==
    IF \A p \in DOMAIN s : ~OpenClosed(s, p) THEN s
    ELSE sub_parentheses_at(s, MinOf({p \in DOMAIN s : OpenClosed(s, p)}))

any_role_in(text) ==
    \E n \in DOMAIN role_markers : contains(text, role_markers[n])

uppercase_chars(s) == Cardinality({n \in DOMAIN s : isupper_char(s[n])})
lowercase_chars(s) == Cardinality({n \in DOMAIN s : islower_char(s[n])})

\* uppercase_ratio >= 0.7, or no letters at all
uppercase_ratio_ok(up, low) == IF up + low > 0 THEN up * 10 >= 7 * (up + low) ELSE TRUE

mostly_uppercase(text_for_case_check, text_clean) ==
    IF text_for_case_check # <<>>
    THEN uppercase_ratio_ok(uppercase_chars(text_for_case_check),
                            lowercase_chars(text_for_case_check))
    ELSE isupper(text_clean)

is_mostly_uppercase(text_clean) ==
    mostly_uppercase(strip(sub_parentheses(sub_biblical_reference(text_clean))),
                     text_clean)

title_text(text_clean, font_size, is_pink) ==
    /\ is_mostly_uppercase(text_clean)
    /\ Len(text_clean) > 4
    /\ font_size >= 12
    /\ is_pink
    /\ ~any_role_in(text_clean)
    /\ ~_is_chord_line_text(text_clean)
    /\ ~contains(lower(text_clean), kapodaster_word)

_is_title_line(text, font_size, is_pink) ==
    title_text(strip(text), font_size, is_pink)

capo_text(text_lower, is_pink) ==
    /\ is_pink
    /\ contains(text_lower, kapodaster_word) \/ contains(text_lower, kapo_word)

_is_kapodaster_line(text, is_pink) == capo_text(lower(strip(text)), is_pink)

\* pink text in parentheses
parenthesised(text_clean, is_pink) ==
    /\ is_pink
    /\ startswith(text_clean, <<"(">>)
    /\ endswith(text_clean, <<")">>)

comment_keywords(text_clean, text_lower) ==
    \/ startswith(text_clean, bez_word)
    \/ /\ endswith(text_clean, <<")">>)
       /\ contains(text_lower, <<"b","l","a","g","o","s","l","o","v","l","j","e","n">>)
       /\ ~startswith(text_clean, <<"S","V","E","T">>)
    \/ /\ startswith(text_clean, <<"*">>)
       /\ \/ contains(text_lower, <<"z","b","o","r">>)
          \/ contains(text_lower, <<"o","d","g","o","v","a","r","a">>)

comment_text(text_clean, is_pink) ==
    \/ parenthesised(text_clean, is_pink)
    \/ comment_keywords(text_clean, lower(text_clean))

_is_comment_line_enhanced(text, is_pink) == comment_text(strip(text), is_pink)

pink_colors == {15466636, 15466637, 15466635}

_is_pink_color(color) == color \in pink_colors

\* the markers the stripped text starts with, as indices of the list
\* sorted longest first
markers_at_start(text_clean) ==
    {n \in DOMAIN role_markers_longest_first :
        startswith(text_clean, role_markers_longest_first[n])}

first_marker(hits) ==
    IF hits = {} THEN <<>> ELSE role_markers_longest_first[MinOf(hits)]

\* _extract_role_marker: the first marker, longest first, the stripped line
\* starts with; <<>> when there is none
_extract_role_marker(line) == first_marker(markers_at_start(strip(line)))

----------------------------------------------------------------------------
(* Chord positions (find_chord_positions_in_span, map_chord_to_verse_      *)
(* position, _find_chords_with_span_positioning).                          *)

max_chord_distance == 18

\* One (word, pixel_pos) entry per chord word the text holds; pixel_pos is
\* chord_span_start + (word_start_in_text / len(text)) * chord_span_width,
\* kept as the fraction num / den.
RECURSIVE chord_positions_from(_, _, _, _, _)
chord_positions_from(words, current_pos, chord_span_text, chord_span_start, chord_span_width) ==
    IF words = <<>> THEN <<>>
    ELSE LET word == Head(words)
             word_start_in_text == find(chord_span_text, word, current_pos)
         IN  IF _looks_like_chord(word) /\ word_start_in_text # -1
             THEN << [chord |-> word,
                      text_pos |-> word_start_in_text,
                      num |-> chord_span_start * Len(chord_span_text)
                              + word_start_in_text * chord_span_width,
                      den |-> Len(chord_span_text)] >>
                  \o chord_positions_from(Tail(words),
                        word_start_in_text + Len(word), chord_span_text,
                        chord_span_start, chord_span_width)
             ELSE chord_positions_from(Tail(words), current_pos,
                        chord_span_text, chord_span_start, chord_span_width)

find_chord_positions_in_span(chord_span_text, chord_span_start, chord_span_width) ==
    chord_positions_from(split(chord_span_text), 0, chord_span_text,
                         chord_span_start, chord_span_width)

\* The loop of map_chord_to_verse_position from character n (0-based) on:
\* current_pixel is in thousandths of a pixel, the target x is x_num / x_den.
\* verse_pixel_x <= char_center  is  x_num / x_den <= (2 * current_pixel
\* + char_width) / 2000.
RECURSIVE char_position_from(_, _, _, _, _, _)
char_position_from(verse_text, n, current_pixel, x_num, x_den, font_size) ==
    IF n >= Len(verse_text) THEN Len(verse_text)
    ELSE LET char_width == get_char_width(verse_text[n + 1], font_size)
         IN  IF 2000 * x_num <= x_den * (2 * current_pixel + char_width)
             THEN n
             ELSE char_position_from(verse_text, n + 1,
                      current_pixel + char_width, x_num, x_den, font_size)

\* the walk over the Arial widths without the shortcut for a box of width 0
\* and without the clamp to the box
map_chord_to_verse_position_unclamped(x_num, x_den, verse_text, verse_span_start, verse_span_width, font_size) ==
    char_position_from(verse_text, 0, 1000 * verse_span_start, x_num, x_den,
                       font_size)

map_chord_to_verse_position(x_num, x_den, verse_text, verse_span_start, verse_span_width, font_size) ==
    IF verse_span_width = 0 THEN 0
    ELSE LET chord_x_clamped ==
                 Max(verse_span_start * x_den,
                     Min(x_num, (verse_span_start + verse_span_width) * x_den))
             char_position ==
                 char_position_from(verse_text, 0, 1000 * verse_span_start,
                                    chord_x_clamped, x_den, font_size)
         IN  Max(0, Min(char_position, Len(verse_text)))

\* the closest chord line strictly above the text line: its index in
\* chord_lines (the first of the closest), or 0
best_chord_line(text_y, chord_line_list) ==
    LET above == {n \in DOMAIN chord_line_list : chord_line_list[n].y < text_y}
    IN  IF above = {} THEN 0
        ELSE CHOOSE n \in above : \A m \in above :
                \/ chord_line_list[n].y > chord_line_list[m].y
                \/ chord_line_list[n].y = chord_line_list[m].y /\ n <= m

\* too_far with the threshold itself counted as too far: the variant the
\* distance property C11 must tell from the code's test
too_far_from_threshold(distance) == distance >= max_chord_distance

\* distance > 18.0
too_far(distance) == distance > max_chord_distance

\* a sort that puts the later of two chords of one position first
sorted_by_position_later_first(chords) ==
    sorted_by(chords, [n \in DOMAIN chords |->
                          chords[n].position * (Len(chords) + 1) - n])

\* sorted(chords, key=lambda x: x.position): stable
sorted_by_position(chords) ==
    sorted_by(chords, [n \in DOMAIN chords |-> chords[n].position])

_find_chords_with_span_positioning(text_line_data, chord_line_list) ==
    LET b == best_chord_line(text_line_data.y, chord_line_list)
    IN  IF b = 0 THEN <<>>
        ELSE IF too_far(text_line_data.y - chord_line_list[b].y)
        THEN <<>>
        ELSE LET best == chord_line_list[b]
                 chord_positions ==
                     find_chord_positions_in_span(best.text, best.x_start,
                                                  best.width)
                 chords ==
                     [n \in DOMAIN chord_positions |->
                        [chord |-> chord_positions[n].chord,
                         position |-> map_chord_to_verse_position(
                             chord_positions[n].num, chord_positions[n].den,
                             text_line_data.text_content,
                             text_line_data.x_start, text_line_data.width,
                             text_line_data.font_size),
                         x_coord |-> <<chord_positions[n].num,
                                       chord_positions[n].den>>,
                         from |-> best.src]]
             IN  sorted_by_position(chords)

----------------------------------------------------------------------------
(* _extract_span_data: the line record and its classification.             *)

\* line_data of the line doc[n]; src (the indices in doc the record comes
\* from) is bookkeeping of the model
line_data(raw, n) ==
    [text |-> raw.text,
     text_content |-> strip(raw.text),
     x_start |-> raw.x0,
     x_end |-> raw.x1,
     width |-> raw.x1 - raw.x0,
     y |-> raw.y + raw.page_num * raw.page_height,
     font_size |-> raw.size,
     is_pink |-> _is_pink_color(raw.color),
     src |-> {n}]

\* the text line's record: text_content is the text after the role marker
\* when the stripped line starts with a marker and that text is not empty
text_line_data(ld) ==
    LET line_text == ld.text
        role == _extract_role_marker(line_text)
        text_after_role == strip(SubSeq(line_text, Len(role) + 1, Len(line_text)))
    IN  IF any_role_in(line_text) /\ role # <<>> /\ text_after_role # <<>>
        THEN [ld EXCEPT !.text_content = text_after_role]
        ELSE ld

\* line_class without the comment branch: the variant the property C3 must
\* tell from the code's chain
line_class_without_comment(line_text, font_size, is_pink) ==
    IF _is_chord_line_text(line_text) THEN "chord"
    ELSE IF _is_title_line(line_text, font_size, is_pink) THEN "title"
    ELSE IF _is_kapodaster_line(line_text, is_pink) THEN "kapodaster"
    ELSE "text"

\* line_class without the final else: the variant the property C7 must tell
\* from the code's chain
line_class_without_default(line_text, font_size, is_pink) ==
    IF _is_chord_line_text(line_text) THEN "chord"
    ELSE IF _is_title_line(line_text, font_size, is_pink) THEN "title"
    ELSE IF _is_kapodaster_line(line_text, is_pink) THEN "kapodaster"
    ELSE IF _is_comment_line_enhanced(line_text, is_pink)
    THEN IF parenthesised(strip(line_text), is_pink)
         THEN "inline_comment"
         ELSE "comment"
    ELSE "none"

\* the branch of the if/elif chain of _extract_span_data the line takes
line_class(line_text, font_size, is_pink) ==
    IF _is_chord_line_text(line_text) THEN "chord"
    ELSE IF _is_title_line(line_text, font_size, is_pink) THEN "title"
    ELSE IF _is_kapodaster_line(line_text, is_pink) THEN "kapodaster"
    ELSE IF _is_comment_line_enhanced(line_text, is_pink)
    THEN IF /\ is_pink
            /\ startswith(strip(line_text), <<"(">>)
            /\ endswith(strip(line_text), <<")">>)
         THEN "inline_comment"
         ELSE "comment"
    ELSE "text"

----------------------------------------------------------------------------
(* _combine_chord_lines_by_y_position and _merge_chord_lines_at_same_y.    *)

\* y_groups: the groups in insertion order, each keyed by its first line's
\* y; one_pixel is 1.0 in the unit the y are given in
RECURSIVE group_by_y_in(_, _, _)
group_by_y_in(y_groups, lines, one_pixel) ==
    IF lines = <<>> THEN y_groups
    ELSE LET chord_line == Head(lines)
             hits == {g \in DOMAIN y_groups :
                         Abs(chord_line.y - y_groups[g].key) < one_pixel}
         IN  group_by_y_in(
                 IF hits = {}
                 THEN Append(y_groups, [key |-> chord_line.y,
                                        lines |-> <<chord_line>>])
                 ELSE LET g == CHOOSE x \in hits : \A z \in hits : x <= z
                      IN  [y_groups EXCEPT ![g].lines = Append(@, chord_line)],
                 Tail(lines), one_pixel)

\* the groups of lines whose y are whole pixels
group_by_y(y_groups, lines) == group_by_y_in(y_groups, lines, 1)

RECURSIVE combined_text_from(_, _)
combined_text_from(sorted_lines, current_x) ==
    IF sorted_lines = <<>> THEN <<>>
    ELSE LET line == Head(sorted_lines)
             spaces_needed == Max(0, (line.x_start - current_x) \div 6)
         IN  Spaces(spaces_needed) \o strip(line.text)
             \o combined_text_from(Tail(sorted_lines), line.x_end)

_merge_chord_lines_at_same_y(group_lines, y_pos) ==
    LET sorted_lines ==
            sorted_by(group_lines,
                      [n \in DOMAIN group_lines |-> group_lines[n].x_start])
        min_x == CHOOSE x \in {sorted_lines[n].x_start : n \in DOMAIN sorted_lines} :
                    \A n \in DOMAIN sorted_lines : x <= sorted_lines[n].x_start
        max_x == CHOOSE x \in {sorted_lines[n].x_end : n \in DOMAIN sorted_lines} :
                    \A n \in DOMAIN sorted_lines : x >= sorted_lines[n].x_end
        combined_text == combined_text_from(sorted_lines, min_x)
    IN  [text |-> combined_text,
         text_content |-> strip(combined_text),
         x_start |-> min_x,
         x_end |-> max_x,
         width |-> max_x - min_x,
         y |-> y_pos,
         font_size |-> sorted_lines[1].font_size,
         is_pink |-> sorted_lines[1].is_pink,
         src |-> UNION {sorted_lines[n].src : n \in DOMAIN sorted_lines}]

\* combined_lines: one line per group
combined_lines(y_groups) ==
    [g \in DOMAIN y_groups |->
        IF Len(y_groups[g].lines) = 1
        THEN y_groups[g].lines[1]
        ELSE _merge_chord_lines_at_same_y(y_groups[g].lines, y_groups[g].key)]

_combine_chord_lines_by_y_position(lines) ==
    combined_lines(group_by_y(<<>>, lines))

----------------------------------------------------------------------------
(* _extract_title/_kapodaster/_comments_from_classified_lines.             *)

sorted_by_y(lines) == sorted_by(lines, [n \in DOMAIN lines |-> lines[n].y])

untitled_song == <<"U","n","t","i","t","l","e","d"," ","S","o","n","g">>

\* the title taken from the first Title line met, whatever its y
_extract_title_from_first_listed(lines, name) ==
    IF lines = <<>>
    THEN IF name # <<>> THEN name ELSE untitled_song
    ELSE strip(lines[1].text)

_extract_title_from_classified_lines(lines, name) ==
    IF lines = <<>>
    THEN IF name # <<>> THEN name ELSE untitled_song
    ELSE strip(sorted_by_y(lines)[1].text)

_extract_kapodaster_from_classified_lines(lines) ==
    IF lines = <<>> THEN <<>> ELSE strip(sorted_by_y(lines)[1].text)

\* the loop of _extract_comments_from_classified_lines and the flush after it
RECURSIVE combine_comments(_, _, _)
combine_comments(lines, combined_comments, current_comment) ==
    IF lines = <<>>
    THEN IF current_comment # <<>>
         THEN Append(combined_comments, current_comment)
         ELSE combined_comments
    ELSE LET text == strip(Head(lines).text)
             rest == Tail(lines)
         IN  IF startswith(text, <<"(">>) /\ ~endswith(text, <<")">>)
             THEN combine_comments(rest, combined_comments, text)
             ELSE IF \/ startswith(text, <<"b","e","z",":">>)
                     \/ endswith(text, <<")">>) /\ current_comment # <<>>
             THEN IF current_comment # <<>>
                  THEN LET joined == current_comment \o <<"\n">> \o Spaces(20) \o text
                       IN  IF endswith(text, <<")">>)
                           THEN combine_comments(rest,
                                    Append(combined_comments, joined), <<>>)
                           ELSE combine_comments(rest, combined_comments, joined)
                  ELSE combine_comments(rest, Append(combined_comments, text), <<>>)
             ELSE combine_comments(rest,
                      Append(IF current_comment # <<>>
                             THEN Append(combined_comments, current_comment)
                             ELSE combined_comments, text),
                      <<>>)

_extract_comments_from_classified_lines(lines) ==
    combine_comments(sorted_by_y(lines), <<>>, <<>>)

----------------------------------------------------------------------------
(* _parse_verses_with_span_positioning_enhanced.                           *)

\* is_inline_comment never holding: the variant the property C4 must tell
\* from the code's test
is_inline_comment_never(is_pink, t) == FALSE

\* pink text in parentheses
is_inline_comment(is_pink, t) ==
    /\ is_pink
    /\ startswith(strip(t), <<"(">>)
    /\ endswith(strip(t), <<")">>)

comment_directive(t) ==
    <<"{","c","o","m","m","e","n","t",":"," ">> \o strip(t) \o <<"}">>

\* The VerseLine of the text line ld shown as shown_text: a comment directive
\* without chords for an inline comment (behind prefix), else the text with
\* the chords of the chord line above.  src is bookkeeping of the model.
verse_line(ld, shown_text, prefix, chord_line_list) ==
    IF is_inline_comment(ld.is_pink, shown_text)
    THEN [text |-> prefix \o comment_directive(shown_text),
          chords |-> <<>>,
          original_line |-> ld.text,
          src |-> ld.src]
    ELSE [text |-> shown_text,
          chords |-> _find_chords_with_span_positioning(ld, chord_line_list),
          original_line |-> ld.text,
          src |-> ld.src]

\* a continuation line's text: stripped, and leading "" quotes removed
clean_text_of(text) ==
    LET clean_text == strip(text)
    IN  IF startswith(clean_text, <<"\"","\"">>)
        THEN strip(remove_all(strip(remove_all(clean_text, <<"\"","\"">>)),
                              <<"\"">>))
        ELSE clean_text

\* the inner loop after a role marker on a line of its own: the 0-based
\* indices from j on up to the next role-marker line
RECURSIVE lines_after_role(_, _)
lines_after_role(lines, j) ==
    IF j >= Len(lines) THEN <<>>
    ELSE IF strip(lines[j + 1].text) = <<>> THEN lines_after_role(lines, j + 1)
    ELSE IF _extract_role_marker(lines[j + 1].text) # <<>> THEN <<>>
    ELSE <<j>> \o lines_after_role(lines, j + 1)

\* whether the role marker and the text are on the same line
role_with_text(text, role_marker) ==
    Len(strip(text)) > Len(strip(role_marker)) + 2

\* the default verse made of every non-blank line, processed or not
default_verse_of_all_lines(lines, processed, chord_line_list) ==
    LET nonblank == SelectSeq([n \in DOMAIN lines |-> n],
                        LAMBDA n : strip(lines[n].text) # <<>>)
    IN  IF nonblank = <<>> THEN <<>>
        ELSE << [role |-> <<>>,
                 lines |-> [m \in DOMAIN nonblank |->
                              verse_line(lines[nonblank[m]],
                                         strip(lines[nonblank[m]].text),
                                         <<>>, chord_line_list)]] >>

\* the default verse of the lines left unprocessed, as a list of 0 or 1 verses
default_verse(lines, processed, chord_line_list) ==
    LET unprocessed == SelectSeq([n \in DOMAIN lines |-> n],
                           LAMBDA n : (n - 1) \notin processed
                                      /\ strip(lines[n].text) # <<>>)
        default_verse_lines ==
            [m \in DOMAIN unprocessed |->
                verse_line(lines[unprocessed[m]], strip(lines[unprocessed[m]].text),
                           <<>>, chord_line_list)]
    IN  IF unprocessed = <<>> THEN <<>>
        ELSE << [role |-> <<>>, lines |-> default_verse_lines] >>

\* the verse appended whenever a role is open, with lines or without
completed_verse_of_any_lines(role, lines) ==
    IF role # <<>>
    THEN << [role |-> role, lines |-> lines] >>
    ELSE <<>>

completed_verse(role, lines) ==
    IF lines # <<>> /\ role # <<>>
    THEN << [role |-> role, lines |-> lines] >>
    ELSE <<>>

----------------------------------------------------------------------------
(* ProportionalMapper.map_chords_proportionally                            *)
(* (src/lang/hr/01_src/parser/proportional_mapper.py).  Its chord table    *)
(* and _looks_like_chord are those of the span parser; its role markers    *)
(* are fewer.                                                              *)

ProportionalMapper_role_markers ==
    << <<"K",".","+","Z",".">>, <<"K",".">>, <<"Z",".">>, <<"P",".">> >>

ProportionalMapper_role_markers_longest_first ==
    sorted_by(ProportionalMapper_role_markers,
              [n \in DOMAIN ProportionalMapper_role_markers |->
                  0 - Len(ProportionalMapper_role_markers[n])])

ProportionalMapper_markers_at_start(text_clean) ==
    {n \in DOMAIN ProportionalMapper_role_markers_longest_first :
        startswith(text_clean, ProportionalMapper_role_markers_longest_first[n])}

ProportionalMapper_first_marker(hits) ==
    IF hits = {} THEN <<>>
    ELSE ProportionalMapper_role_markers_longest_first[MinOf(hits)]

ProportionalMapper_extract_role_marker(line) ==
    ProportionalMapper_first_marker(ProportionalMapper_markers_at_start(strip(line)))

\* text_line[len(role_marker):].strip() if role_marker else text_line.strip()
text_after_marker(text_line, role_marker) ==
    IF role_marker # <<>>
    THEN strip(SubSeq(text_line, Len(role_marker) + 1, Len(text_line)))
    ELSE strip(text_line)

ProportionalMapper_text_content(text_line) ==
    text_after_marker(text_line, ProportionalMapper_extract_role_marker(text_line))

\* the scan of the chord line from the 0-based index at: the chord words with
\* the index they start at
RECURSIVE chord_words_from(_, _)
chord_word_at(chord_line, chord_start, word_end) ==
    (IF _looks_like_chord(SubSeq(chord_line, chord_start + 1, word_end - 1))
     THEN << [chord |-> SubSeq(chord_line, chord_start + 1, word_end - 1),
              chord_start |-> chord_start] >>
     ELSE <<>>)
    \o chord_words_from(chord_line, word_end - 1)

chord_words_from(chord_line, at) ==
    IF at >= Len(chord_line) THEN <<>>
    ELSE IF isspace(chord_line[at + 1]) THEN chord_words_from(chord_line, at + 1)
    ELSE chord_word_at(chord_line, at, SkipWhile(chord_line, at + 1, "word"))

\* int(proportion * len(text_content)), clamped: the floor of the exact
\* product, which the float product equals for the lengths drawn here
proportional_position(chord_pos, effective_chord_length, text_length) ==
    IF effective_chord_length > 0
    THEN Max(0, Min((chord_pos * text_length) \div effective_chord_length,
                    text_length))
    ELSE 0

\* chord_start (the column the word starts at) is bookkeeping of the model
proportional_chords(chord_positions, effective_chord_length, text_length) ==
    [n \in DOMAIN chord_positions |->
        [chord |-> chord_positions[n].chord,
         position |-> proportional_position(chord_positions[n].chord_start,
                          effective_chord_length, text_length),
         chord_start |-> chord_positions[n].chord_start]]

map_chords_proportionally(chord_line, text_line) ==
    sorted_by_position(
        proportional_chords(chord_words_from(chord_line, 0),
                            Len(rstrip(chord_line)),
                            Len(ProportionalMapper_text_content(text_line))))

----------------------------------------------------------------------------
(* HybridCorrectedParser.correct_chord_positions                           *)
(* (src/lang/hr/01_src/parser/hybrid_corrected_parser.py) and              *)
(* PixelPreciseParser.find_char_position_from_pixel                        *)
(* (src/lang/sl/01_src/parser/pixel_precise_parser.py).  Both classes      *)
(* have the Arial widths and chord table of the span parser and the role   *)
(* markers, _extract_role_marker and chord-line scan of the proportional   *)
(* mapper.  Widths and pixel offsets are in thousandths of a pixel.        *)

\* the sum of get_char_width over the text
RECURSIVE actual_text_width(_, _)
actual_text_width(text, font_size) ==
    IF text = <<>> THEN 0
    ELSE get_char_width(Head(text), font_size)
         + actual_text_width(Tail(text), font_size)

\* The loop over text_content from character j on, for a chord starting at
\* column chord_start; it yields 0, the initial value, when it never breaks.
\* estimated_pixel_offset = chord_start * width('n') * scaling_factor
\*                        = chord_start * actual_text_width / len(text_content)
RECURSIVE corrected_char_position_from(_, _, _, _, _)
corrected_char_position_from(text_content, j, current_pixel_offset, chord_start, font_size) ==
    IF j >= Len(text_content) THEN 0
    ELSE IF (2 * current_pixel_offset
             + get_char_width(text_content[j + 1], font_size))
            * Len(text_content)
            >= 2 * chord_start * actual_text_width(text_content, font_size)
    THEN j
    ELSE corrected_char_position_from(text_content, j + 1,
             current_pixel_offset + get_char_width(text_content[j + 1], font_size),
             chord_start, font_size)

\* text_start_x + estimated_pixel_offset as a fraction <<num, den>>; the
\* scaling factor of an empty text is 1.0
hybrid_x_coord(chord_start, text_content, text_start_x, font_size) ==
    IF text_content = <<>>
    THEN <<1000 * text_start_x + chord_start * get_char_width("n", font_size),
           1000>>
    ELSE <<1000 * text_start_x * Len(text_content)
           + chord_start * actual_text_width(text_content, font_size),
           1000 * Len(text_content)>>

hybrid_chords(chord_positions, text_content, text_start_x, font_size) ==
    [n \in DOMAIN chord_positions |->
        [chord |-> chord_positions[n].chord,
         position |-> Min(corrected_char_position_from(text_content, 0, 0,
                              chord_positions[n].chord_start, font_size),
                          Len(text_content)),
         x_coord |-> hybrid_x_coord(chord_positions[n].chord_start,
                         text_content, text_start_x, font_size),
         chord_start |-> chord_positions[n].chord_start]]

correct_chord_positions(chord_line, text_line, text_start_x, font_size) ==
    sorted_by_position(
        hybrid_chords(chord_words_from(chord_line, 0),
                      ProportionalMapper_text_content(text_line),
                      text_start_x, font_size))

build_character_position_map(text, font_size, text_start_x) ==
    [n \in DOMAIN text |->
        [char_pos |-> n - 1,
         char_start_x |-> 1000 * text_start_x
                          + actual_text_width(SubSeq(text, 1, n - 1), font_size),
         char_end_x |-> 1000 * text_start_x
                        + actual_text_width(SubSeq(text, 1, n), font_size)]]

\* twice the distance from chord_x to the centre of the n-th entry
center_distance(char_map, n, chord_x) ==
    Abs(2000 * chord_x - (char_map[n].char_start_x + char_map[n].char_end_x))

\* the first entry of the least distance; 0 for an empty map
nearest_chars(char_map, chord_x) ==
    {n \in DOMAIN char_map :
        \A m \in DOMAIN char_map :
            center_distance(char_map, n, chord_x)
            <= center_distance(char_map, m, chord_x)}

find_char_position_from_pixel(char_map, chord_x) ==
    IF char_map = <<>> THEN 0
    ELSE char_map[MinOf(nearest_chars(char_map, chord_x))].char_pos

----------------------------------------------------------------------------
(* The documents: what the PDF reader yields for a page.  A line is its     *)
(* text, the colour and size of its first span, its bounding box (x0, x1)   *)
(* and its top y.                                                          *)

MaxLines == 3

black == 0
pink == 15466636

Entry(text, color, size, x0, x1, gap) ==
    [text |-> text, color |-> color, size |-> size, x0 |-> x0, x1 |-> x1,
     gap |-> gap]

\* the lines the documents of several lines are made of; gap is the
\* distance of the line's y from the y of the line before it
VerseCatalogue ==
    { Entry(<<"K","."," ","F","i","r","s","t">>, black, 11, 100, 135, 8),
      Entry(<<"Z","."," ","S","e","c","o","n","d">>, black, 11, 100, 150, 8),
      Entry(<<"K",".">>, black, 11, 100, 110, 8),
      Entry(<<"s","e","c","o","n","d">>, black, 11, 100, 136, 8),
      Entry(<<"t","h","i","r","d">>, black, 11, 100, 121, 20),
      Entry(<<"C"," "," "," "," ","G">>, pink, 11, 100, 129, 8),
      Entry(<<"\"","\"","a","b">>, black, 11, 100, 120, 8),
      Entry(<<"\"","\"">>, black, 11, 100, 108, 8),
      Entry(<<"(","c","o","m","m","e","n","t",")">>, pink, 11, 100, 153, 8),
      Entry(<<"N","A","S","L","O","V">>, pink, 12, 100, 149, 8) }

\* documents with two chord lines at one y, with a comment line and a
\* kapodaster line among the lyrics, with a black parenthetical, and with a
\* chord line 18 and 19 above a lyric line
\* a chord line with G at column 3 and C7 at column 11, and the role line
\* it stands over
G_C7_line == <<" "," "," ","G"," "," "," "," "," "," "," ","C","7">>

K_Slava_Bogu_na_visini ==
    <<"K","."," ","S","l","a","v","a"," ","B","o","g","u"," ","n","a"," ","v","i","s","i","n","i">>

OtherPages ==
    { << Entry(<<"C"," "," "," "," ","G">>, pink, 11, 100, 129, 8),
         Entry(<<"D">>, pink, 11, 140, 148, 0),
         Entry(<<"K","."," ","F","i","r","s","t">>, black, 11, 100, 135, 8) >>,
      << Entry(<<"D">>, pink, 11, 140, 148, 8),
         Entry(<<"C">>, pink, 11, 100, 108, 0),
         Entry(<<"s","e","c","o","n","d">>, black, 11, 100, 136, 8) >>,
      << Entry(<<"K","a","p","o","d","a","s","t","e","r"," ","I","I">>, pink,
               11, 100, 165, 8),
         Entry(<<"K","."," ","F","i","r","s","t">>, black, 11, 100, 135, 8),
         Entry(<<"b","e","z",":"," ","x">>, black, 11, 100, 129, 8) >>,
      << Entry(<<"K","."," ","F","i","r","s","t">>, black, 11, 100, 135, 8),
         Entry(<<"Z","."," ","S","e","c","o","n","d">>, black, 11, 100, 150, 8),
         Entry(<<"(","c","o","m","m","e","n","t",")">>, black, 11, 100, 153,
               8) >>,
      << Entry(<<"C"," "," "," "," ","G">>, pink, 11, 100, 129, 8),
         Entry(<<"s","e","c","o","n","d">>, black, 11, 100, 136, 18) >>,
      << Entry(<<"C"," "," "," "," ","G">>, pink, 11, 100, 129, 8),
         Entry(<<"K","."," ","F","i","r","s","t">>, black, 11, 100, 135, 19) >>,
      << Entry(G_C7_line, pink, 11, 100, 153, 8),
         Entry(K_Slava_Bogu_na_visini, black, 11, 100, 212, 12) >>,
      << Entry(<<"C"," "," "," "," ","G">>, pink, 11, 100, 129, 8),
         Entry(<<"s","e","c","o","n","d">>, black, 11, 100, 100, 8) >>,
      << Entry(<<"P","S","A","L","A","M">>, pink, 12, 100, 140, 8),
         Entry(<<"S","L","A","V","A">>, pink, 12, 100, 135, 0 - 8),
         Entry(<<"K","a","p","o","d","a","s","t","e","r"," ","I","I">>, pink,
               11, 100, 165, 24),
         Entry(<<"K","a","p","o","d","a","s","t","e","r"," ","I","V">>, pink,
               11, 100, 165, 0 - 8) >>,
      << Entry(<<"(","a","b","c">>, pink, 11, 100, 120, 8),
         Entry(<<"b","e","z",":"," ","x",")">>, black, 11, 100, 130, 8) >> }

\* the texts of the one-line documents, each taken in both colours and sizes
ClassifyTexts ==
    { <<" ","K","."," ","F","i","r","s","t">>,
      <<"K","."," ","a">>,
      <<"K",".","+","Z","."," ","A","m","e","n">>,
      <<"(","A","B","C","D","E",")">>,
      <<"(","a","b","c","d","e",")">>,
      <<"K","A","P","O"," ","I","I">>,
      <<"K","a","p","o"," ","2">>,
      <<"K","A","P","O","D","A","S","T","E","R">>,
      <<"G"," ","C"," ","D"," ","x"," ","y">>,
      <<"G"," ","C"," ","D"," ","x">>,
      <<"G"," ","C"," ","D","E"," ","H","E","L","L","O">>,
      <<"G"," ","A"," ","H","E","L","L","O">>,
      <<"S","V","E","T"," ","-"," ","P","s"," ","6"," ","(","x",")">>,
      <<"N","A","S","L","O","V">>,
      <<"N","a","s","l","o","v">>,
      <<"A","B","C","D">>,
      <<"*"," ","z","b","o","r">>,
      <<" "," "," ">> }

\* the y of line n: the first line is 8 below y = 50
RECURSIVE y_of(_, _)
y_of(f, n) == IF n = 0 THEN 50 ELSE y_of(f, n - 1) + f[n].gap

\* the lines of the page page_num, of height page_height, made of the
\* entries f[1], ..., f[n]; y is the top of the line's box on its page
OnPage(f, page_num, page_height) ==
    [n \in DOMAIN f |->
        [text |-> f[n].text, color |-> f[n].color, size |-> f[n].size,
         x0 |-> f[n].x0, x1 |-> f[n].x1, y |-> y_of(f, n),
         page_num |-> page_num, page_height |-> page_height]]

\* a one-page document
Page(f) == OnPage(f, 0, 800)

PageHeights == {400, 800}

\* two-page documents: a role line near the top or near the bottom of the
\* first page, one near the top of the second; each page of either height
TwoPageLine(text, x1, gap, page_num, page_height) ==
    OnPage(<<Entry(text, black, 11, 100, x1, gap)>>, page_num, page_height)

\* every line lies on its page: 50 + q[3] is the y of the first page's line
TwoPageShapes ==
    {q \in PageHeights \X PageHeights \X {8, 250, 650} \X {8, 50} :
        50 + q[3] < q[1]}

TwoPages ==
    {TwoPageLine(<<"K","."," ","F","i","r","s","t">>, 135, q[3], 0, q[1])
     \o TwoPageLine(<<"Z","."," ","S","e","c","o","n","d">>, 150, q[4], 1, q[2]) :
        q \in TwoPageShapes}

Documents ==
    {Page(f) : f \in UNION {[1..n -> VerseCatalogue] : n \in 1..MaxLines}}
    \cup {Page(f) : f \in OtherPages}
    \cup TwoPages
    \cup {Page(<<Entry(t, c, z, 100, 100 + 5 * Len(t), 8)>>) :
             t \in ClassifyTexts, c \in {black, pink}, z \in {11, 12}}

SongNames == { <<>>, <<"P","s","a","l","a","m">> }

----------------------------------------------------------------------------
(* The state machine: parse_and_export up to the Song.                     *)

Init ==
    /\ doc \in Documents
    /\ song_name \in SongNames
    /\ pc = "extract"
    /\ k = 0
    /\ raw_chord_lines = <<>>
    /\ chord_lines = <<>>
    /\ text_lines = <<>>
    /\ title_lines = <<>>
    /\ kapodaster_lines = <<>>
    /\ comment_lines = <<>>
    /\ title = <<>>
    /\ kapodaster = <<>>
    /\ comments = <<>>
    /\ text_lines_sorted = <<>>
    /\ processed_indices = {}
    /\ i = 0
    /\ current_role = <<>>
    /\ current_verse_lines = <<>>
    /\ verses = <<>>
    /\ call = [fn |-> "none"]
    /\ result = <<>>
    /\ additional_titles = <<>>
    /\ counter_file = [exists |-> FALSE, content |-> <<>>]
    /\ cli = <<>>

builder_vars == <<text_lines_sorted, processed_indices, i, current_role,
                  current_verse_lines, verses>>
song_vars == <<title, kapodaster, comments>>
list_vars == <<raw_chord_lines, text_lines, title_lines, kapodaster_lines,
               comment_lines>>

\* _extract_span_data: one turn of the loop over the lines
ExtractLine ==
    /\ pc = "extract"
    /\ k < Len(doc)
    /\ k' = k + 1
    /\ LET raw == doc[k + 1]
           ld == line_data(raw, k + 1)
           class == line_class(raw.text, ld.font_size, ld.is_pink)
           add(lines, classes, rec) ==
               IF strip(raw.text) # <<>> /\ class \in classes
               THEN Append(lines, rec)
               ELSE lines
       IN  /\ raw_chord_lines' = add(raw_chord_lines, {"chord"}, ld)
           /\ title_lines' = add(title_lines, {"title"}, ld)
           /\ kapodaster_lines' = add(kapodaster_lines, {"kapodaster"}, ld)
           /\ comment_lines' = add(comment_lines, {"comment"}, ld)
           /\ text_lines' = IF strip(raw.text) # <<>> /\ class = "text"
                            THEN Append(text_lines, text_line_data(ld))
                            ELSE add(text_lines, {"inline_comment"}, ld)
    /\ UNCHANGED <<cli_vars, additional_titles, call, result, doc, song_name, pc, chord_lines, song_vars, builder_vars>>

\* _extract_span_data after the loop: the chord lines are combined
ExtractDone ==
    /\ pc = "extract"
    /\ k = Len(doc)
    /\ chord_lines' = _combine_chord_lines_by_y_position(raw_chord_lines)
    /\ pc' = "parse"
    /\ UNCHANGED <<cli_vars, additional_titles, call, result, doc, song_name, k, list_vars, song_vars, builder_vars>>

\* _parse_with_span_positioning up to the verse builder's loop
ParseSong ==
    /\ pc = "parse"
    /\ title' = _extract_title_from_classified_lines(title_lines, song_name)
    /\ kapodaster' = _extract_kapodaster_from_classified_lines(kapodaster_lines)
    /\ comments' = _extract_comments_from_classified_lines(comment_lines)
    /\ text_lines_sorted' = sorted_by_y(text_lines)
    /\ processed_indices' = {}
    /\ i' = 0
    /\ current_role' = <<>>
    /\ current_verse_lines' = <<>>
    /\ verses' = <<>>
    /\ pc' = "verses"
    /\ UNCHANGED <<cli_vars, additional_titles, call, result, doc, song_name, k, chord_lines, list_vars>>

\* one turn of the while loop of _parse_verses_with_span_positioning_enhanced
VerseStep ==
    /\ pc = "verses"
    /\ i < Len(text_lines_sorted)
    /\ i' = i + 1
    /\ LET data == text_lines_sorted[i + 1]
           text == data.text
           role_marker == _extract_role_marker(text)
           clean_text == clean_text_of(text)
           after == lines_after_role(text_lines_sorted, i + 1)
       IN  IF i \in processed_indices \/ strip(text) = <<>>
           THEN UNCHANGED <<processed_indices, current_role,
                            current_verse_lines, verses>>
           ELSE IF role_marker # <<>>
           THEN /\ verses' = verses \o completed_verse(current_role,
                                                       current_verse_lines)
                /\ current_role' = role_marker
                /\ IF role_with_text(text, role_marker)
                   THEN /\ current_verse_lines' =
                               << verse_line(data, data.text_content,
                                             <<"\n">>, chord_lines) >>
                        /\ processed_indices' = processed_indices \cup {i}
                   ELSE /\ current_verse_lines' =
                               [n \in DOMAIN after |->
                                   verse_line(text_lines_sorted[after[n] + 1],
                                       text_lines_sorted[after[n] + 1].text_content,
                                       <<"\n">>, chord_lines)]
                        /\ processed_indices' =
                               processed_indices \cup {i}
                               \cup {after[n] : n \in DOMAIN after}
           ELSE IF current_role # <<>> /\ clean_text # <<>>
           THEN /\ current_verse_lines' =
                       Append(current_verse_lines,
                              verse_line(data, clean_text, <<"\n">>, chord_lines))
                /\ processed_indices' = processed_indices \cup {i}
                /\ UNCHANGED <<current_role, verses>>
           ELSE UNCHANGED <<processed_indices, current_role,
                            current_verse_lines, verses>>
    /\ UNCHANGED <<cli_vars, additional_titles, call, result, doc, song_name, pc, k, chord_lines, list_vars, song_vars,
                   text_lines_sorted>>

\* after the loop: the final verse, and the default verse put at the front
VersesDone ==
    /\ pc = "verses"
    /\ i = Len(text_lines_sorted)
    /\ verses' = default_verse(text_lines_sorted, processed_indices, chord_lines)
                 \o verses
                 \o completed_verse(current_role, current_verse_lines)
    /\ pc' = "done"
    /\ UNCHANGED <<cli_vars, additional_titles, call, result, doc, song_name, k, chord_lines, list_vars, song_vars,
                   text_lines_sorted, processed_indices, i, current_role,
                   current_verse_lines>>

Next == ExtractLine \/ ExtractDone \/ ParseSong \/ VerseStep \/ VersesDone

Spec == Init /\ [][Next]_vars

----------------------------------------------------------------------------
(* The position mappers called on their own.                               *)

MaxPad == 3

\* chord lines as pdftotext yields them: chords at columns, padded
MapperChordLines ==
    {Spaces(a) \o <<"G">> \o Spaces(b) \o <<"C","7">> \o Spaces(c) :
        a \in 0..MaxPad, b \in 1..MaxPad, c \in 0..1}
    \cup {Spaces(a) \o <<"D">> : a \in 0..(3 * MaxPad)}
    \cup { <<" "," ">>, <<"x"," ","G">> }

MapperLyrics ==
    { <<>>,
      <<"a","b","c">>,
      <<"s","e","c","o","n","d">>,
      <<"i","l","i">>,
      <<"K","."," ","S","l","a","v","a">>,
      <<" ","K","."," ","a","b">>,
      <<"D","."," ","a","b","c","d">> }

MapperInit ==
    /\ doc = <<>>
    /\ song_name = <<>>
    /\ pc = "calls"
    /\ k = 0
    /\ raw_chord_lines = <<>>
    /\ chord_lines = <<>>
    /\ text_lines = <<>>
    /\ title_lines = <<>>
    /\ kapodaster_lines = <<>>
    /\ comment_lines = <<>>
    /\ title = <<>>
    /\ kapodaster = <<>>
    /\ comments = <<>>
    /\ text_lines_sorted = <<>>
    /\ processed_indices = {}
    /\ i = 0
    /\ current_role = <<>>
    /\ current_verse_lines = <<>>
    /\ verses = <<>>
    /\ call = [fn |-> "none"]
    /\ result = <<>>
    /\ additional_titles = <<>>
    /\ counter_file = [exists |-> FALSE, content |-> <<>>]
    /\ cli = <<>>

parser_vars ==
    <<doc, song_name, pc, k, raw_chord_lines, chord_lines, text_lines,
      title_lines, kapodaster_lines, comment_lines, title, kapodaster,
      comments, text_lines_sorted, processed_indices, i, current_role,
      current_verse_lines, verses>>

\* ProportionalMapper.map_chords_proportionally(chord_line, text_line)
MapChordsProportionally ==
    /\ pc = "calls"
    /\ \E chord_line \in MapperChordLines, text_line \in MapperLyrics :
          /\ call' = [fn |-> "map_chords_proportionally",
                      chord_line |-> chord_line, text_line |-> text_line]
          /\ result' = map_chords_proportionally(chord_line, text_line)
    /\ UNCHANGED <<parser_vars, additional_titles, cli_vars>>

\* pixel positions from left of the text to right of it
MapperXs == {96 + 6 * n : n \in 0..(3 * MaxPad)}

MapperWidths == {0, 20, 36}

\* HybridCorrectedParser.correct_chord_positions(chord_line, text_line,
\* text_start_x, font_size)
CorrectChordPositions ==
    /\ pc = "calls"
    /\ \E chord_line \in MapperChordLines, text_line \in MapperLyrics :
          /\ call' = [fn |-> "correct_chord_positions",
                      chord_line |-> chord_line, text_line |-> text_line,
                      text_start_x |-> 100, font_size |-> 11]
          /\ result' = correct_chord_positions(chord_line, text_line, 100, 11)
    /\ UNCHANGED <<parser_vars, additional_titles, cli_vars>>

\* PixelPreciseParser.find_char_position_from_pixel on the map that
\* build_character_position_map makes of the text
FindCharPositionFromPixel ==
    /\ pc = "calls"
    /\ \E text \in MapperLyrics, chord_x \in MapperXs :
          /\ call' = [fn |-> "find_char_position_from_pixel", text |-> text,
                      font_size |-> 11, text_start_x |-> 100,
                      chord_x |-> chord_x]
          /\ result' = find_char_position_from_pixel(
                           build_character_position_map(text, 11, 100), chord_x)
    /\ UNCHANGED <<parser_vars, additional_titles, cli_vars>>

\* PyMuPDFSpanParser.map_chord_to_verse_position; the chord span's start and
\* width, which the function takes and does not use, are left out
MapChordToVersePosition ==
    /\ pc = "calls"
    /\ \E chord_x \in MapperXs, verse_text \in MapperLyrics,
          verse_span_width \in MapperWidths :
          /\ call' = [fn |-> "map_chord_to_verse_position",
                      chord_x |-> chord_x, verse_text |-> verse_text,
                      verse_span_start |-> 100,
                      verse_span_width |-> verse_span_width, font_size |-> 11]
          /\ result' = map_chord_to_verse_position(chord_x, 1, verse_text, 100,
                                                   verse_span_width, 11)
    /\ UNCHANGED <<parser_vars, additional_titles, cli_vars>>

MapperNext ==
    \/ MapChordsProportionally
    \/ CorrectChordPositions
    \/ FindCharPositionFromPixel
    \/ MapChordToVersePosition

MapperSpec == MapperInit /\ [][MapperNext]_vars

----------------------------------------------------------------------------
(* The special parser (pymupdf_span_parser_special.py): its title          *)
(* extraction, which keeps the further titles in the instance, and its     *)
(* export.                                                                 *)

\* the title of _extract_title_from_classified_lines
special_title(titles, name) ==
    IF titles = <<>>
    THEN IF name # <<>> THEN name ELSE untitled_song
    ELSE strip(sorted_by_y(titles)[1].text)

\* self.additional_titles after _extract_title_from_classified_lines: the
\* early return for no Title line leaves the field as it was
special_additional_titles(titles, before) ==
    IF titles = <<>> THEN before
    ELSE [n \in 1..(Len(titles) - 1) |->
            [text |-> strip(sorted_by_y(titles)[n + 1].text),
             y |-> sorted_by_y(titles)[n + 1].y]]

\* '[' + ']['.join(chord_names) + ']'
RECURSIVE chords_in_brackets(_)
chords_in_brackets(chords) ==
    IF chords = <<>> THEN <<>>
    ELSE <<"[">> \o Head(chords).chord \o <<"]">> \o chords_in_brackets(Tail(chords))

\* the loop of _position_chords_in_lyrics and the text added after it
RECURSIVE position_chords_from(_, _, _, _)
position_chords_from(sorted_chords, lyric_text, lyric_pos, placed) ==
    IF sorted_chords = <<>>
    THEN placed \o SubSeq(lyric_text, lyric_pos + 1, Len(lyric_text))
    ELSE IF Head(sorted_chords).position >= Len(lyric_text)
    THEN position_chords_from(Tail(sorted_chords), lyric_text, Len(lyric_text),
             placed \o SubSeq(lyric_text, lyric_pos + 1, Len(lyric_text))
                    \o <<"[">> \o Head(sorted_chords).chord \o <<"]">>)
    ELSE position_chords_from(Tail(sorted_chords), lyric_text,
             Max(lyric_pos, Head(sorted_chords).position),
             placed \o SubSeq(lyric_text, lyric_pos + 1,
                              Head(sorted_chords).position)
                    \o <<"[">> \o Head(sorted_chords).chord \o <<"]">>)

_position_chords_in_lyrics(chords, lyric_text) ==
    IF chords = <<>> THEN lyric_text
    ELSE IF strip(lyric_text) = <<>> THEN chords_in_brackets(chords)
    ELSE position_chords_from(sorted_by_position(chords), lyric_text, 0, <<>>)

\* the output lines of one verse: the role before the first line, a tab
\* before each line, an empty line after the verse
verse_chordpro_lines(verse) ==
    [n \in DOMAIN verse.lines |->
        (IF n = 1 THEN verse.role ELSE <<>>) \o <<"\t">>
        \o _position_chords_in_lyrics(verse.lines[n].chords, verse.lines[n].text)]
    \o << <<>> >>

RECURSIVE verses_chordpro_lines(_)
verses_chordpro_lines(vs) ==
    IF vs = <<>> THEN <<>>
    ELSE verse_chordpro_lines(Head(vs)) \o verses_chordpro_lines(Tail(vs))

title_directive(t) == <<"{","t","i","t","l","e",":"," ">> \o t \o <<"}">>

chordpro_comment(t) ==
    <<"{","c","o","m","m","e","n","t",":"," ">> \o t \o <<"}">>

\* the title and kapodaster lines both exports begin with
chordpro_head(song) ==
    (IF song.title # <<>> THEN <<title_directive(song.title), <<>> >> ELSE <<>>)
    \o (IF song.kapodaster # <<>>
        THEN <<chordpro_comment(song.kapodaster), <<>> >>
        ELSE <<>>)

\* "\n".join(chordpro_lines)
RECURSIVE join_lines(_)
join_lines(lines) ==
    IF lines = <<>> THEN <<>>
    ELSE IF Len(lines) = 1 THEN lines[1]
    ELSE Head(lines) \o <<"\n">> \o join_lines(Tail(lines))

_export_to_chordpro_standard(song) ==
    join_lines(chordpro_head(song)
               \o verses_chordpro_lines(song.verses)
               \o [c \in DOMAIN song.comments |-> chordpro_comment(song.comments[c])])

\* float('inf'): beyond every y
infinite_y == 1000000

\* content_elements before the sort: verses, further titles, comments
content_elements(song, titles) ==
    [v \in DOMAIN song.verses |->
        [type |-> "verse", y |-> song.verses[v].y_coordinate,
         lines |-> verse_chordpro_lines(song.verses[v])]]
    \o [t \in DOMAIN titles |->
        [type |-> "title", y |-> titles[t].y,
         lines |-> << <<>>,
                      chordpro_comment(<<"=","=","="," ">> \o titles[t].text
                                       \o <<" ","=","=","=">>),
                      <<>> >>]]
    \o [c \in DOMAIN song.comments |->
        [type |-> "comment", y |-> infinite_y,
         lines |-> <<chordpro_comment(song.comments[c])>>]]

RECURSIVE element_lines(_)
element_lines(elements) ==
    IF elements = <<>> THEN <<>>
    ELSE Head(elements).lines \o element_lines(Tail(elements))

_export_to_chordpro_special_inline(song, titles) ==
    join_lines(chordpro_head(song)
               \o element_lines(
                      sorted_by(content_elements(song, titles),
                                [n \in DOMAIN content_elements(song, titles) |->
                                    content_elements(song, titles)[n].y])))

DRUGA_EUHARISTIJSKA_MOLITVA == <<"D","R","U","G","A"," ","E","U","H","A","R","I","S","T","I","J","S","K","A"," ","M","O","L","I","T","V","A">>

_export_to_chordpro(song, titles) ==
    IF contains(song.title, DRUGA_EUHARISTIJSKA_MOLITVA)
    THEN _export_to_chordpro_special_inline(song, titles)
    ELSE _export_to_chordpro_standard(song)

\* the Song of a document that holds Title lines only
song_of_titles(titles, name) ==
    [title |-> special_title(titles, name), kapodaster |-> <<>>,
     verses |-> <<>>, comments |-> <<>>]

\* parse_and_export of the special parser on such a document, by an
\* instance whose additional_titles is before
special_parse_and_export(titles, name, before) ==
    _export_to_chordpro(song_of_titles(titles, name),
                        special_additional_titles(titles, before))

MaxTitles == 2

SessionTitleTexts ==
    { <<"S","L","A","V","A"," ","B","O","G","U">>,
      <<"T","E","B","E"," ","B","O","G","A"," ","H","V","A","L","I","M","O">>,
      DRUGA_EUHARISTIJSKA_MOLITVA }

SessionTitleLines == {[text |-> t, y |-> y] : t \in SessionTitleTexts, y \in {50, 58}}

\* documents of Title lines only, the empty document among them
SessionDocuments == UNION {[1..n -> SessionTitleLines] : n \in 0..MaxTitles}

SessionSongNames == { <<>>, <<"P","s","a","l","a","m">>, DRUGA_EUHARISTIJSKA_MOLITVA }

\* one parser instance, constructed (additional_titles empty) and then used
\* for parse after parse
SessionInit == MapperInit

\* parse_and_export on the instance as the parse before left it
SpecialParseAndExport ==
    /\ pc = "calls"
    /\ \E titles \in SessionDocuments, name \in SessionSongNames :
          /\ call' = [fn |-> "parse_and_export", title_lines |-> titles,
                      song_name |-> name]
          /\ result' = special_parse_and_export(titles, name, additional_titles)
          /\ additional_titles' = special_additional_titles(titles, additional_titles)
    /\ UNCHANGED <<parser_vars, cli_vars>>

SessionNext == SpecialParseAndExport

SessionSpec == SessionInit /\ [][SessionNext]_vars

----------------------------------------------------------------------------
(* Functions called on their own, one call at a time: the core models     *)
(* (new_version/core/models.py), BaseParser.parse on a classified          *)
(* document, the role-marker lookup of the language configurations, and    *)
(* the span parser's _position_chords_in_lyrics, _extract_role_marker,     *)
(* find_chord_positions_in_span and _combine_chord_lines_by_y_position.    *)

\* VerseLine.to_chordpro writing the chords in list order
VerseLine_to_chordpro_unsorted(vl) ==
    IF vl.chords = <<>> THEN vl.text
    ELSE position_chords_from(vl.chords, vl.text, 0, <<>>)

\* VerseLine.to_chordpro
VerseLine_to_chordpro(vl) ==
    IF vl.chords = <<>> THEN vl.text
    ELSE position_chords_from(sorted_by_position(vl.chords), vl.text, 0, <<>>)

\* Verse.to_chordpro with use_tabs=True: the lines, before they are joined
Verse_chordpro_lines(verse) ==
    [n \in DOMAIN verse.lines |->
        (IF verse.role # <<>>
         THEN (IF n = 1 THEN verse.role ELSE <<>>) \o <<"\t">>
         ELSE <<>>)
        \o VerseLine_to_chordpro(verse.lines[n])]

Verse_to_chordpro(verse) == join_lines(Verse_chordpro_lines(verse))

\* Comment.to_chordpro
Comment_to_chordpro(c) ==
    IF c.comment_type = "inline"
    THEN <<"\n">> \o chordpro_comment(c.text) \o <<"\n">>
    ELSE c.text

\* what Song.to_chordpro appends to lines for one verse
Song_verse_lines(verse) ==
    IF verse.verse_type = "comment"
    THEN [n \in DOMAIN verse.lines |->
            IF startswith(verse.lines[n].text,
                          <<"\n","{","c","o","m","m","e","n","t",":">>)
            THEN verse.lines[n].text
            ELSE chordpro_comment(verse.lines[n].text)]
    ELSE IF strip(Verse_to_chordpro(verse)) # <<>>
    THEN <<Verse_to_chordpro(verse), <<>> >>
    ELSE <<>>

RECURSIVE Song_verses_lines(_)
Song_verses_lines(vs) ==
    IF vs = <<>> THEN <<>>
    ELSE Song_verse_lines(Head(vs)) \o Song_verses_lines(Tail(vs))

is_general(c) == c.comment_type = "general"

\* the list lines of Song.to_chordpro
Song_chordpro_lines(song) ==
    <<title_directive(song.title), <<>> >>
    \o (IF song.kapodaster # <<>> THEN <<song.kapodaster, <<>> >> ELSE <<>>)
    \o Song_verses_lines(song.verses)
    \o [c \in DOMAIN SelectSeq(song.comments, is_general) |->
            Comment_to_chordpro(SelectSeq(song.comments, is_general)[c])]

\* Song.to_chordpro
Song_to_chordpro(song) == join_lines(Song_chordpro_lines(song))

\* a Comment as the dataclass makes it: comment_type defaults to "general"
Comment(text) == [text |-> text, comment_type |-> "general"]

ModelChords ==
    { <<>>,
      << [chord |-> <<"G">>, position |-> 0, pixel_x |-> 100] >>,
      << [chord |-> <<"C","7">>, position |-> 4, pixel_x |-> 130],
         [chord |-> <<"G">>, position |-> 2, pixel_x |-> 112] >> }

ModelLineTexts == { <<"a","b","c">>, <<"i","l","i"," ","t","i">> }

ModelVerseLines ==
    {[text |-> t, chords |-> c, original_line |-> t] :
        t \in ModelLineTexts, c \in ModelChords}

ModelVerses ==
    {[role |-> r, lines |-> <<l>>, verse_type |-> "verse"] :
        r \in { <<>>, <<"K",".">> }, l \in ModelVerseLines}
    \cup {[role |-> <<"Z",".">>, lines |-> <<l, m>>, verse_type |-> "verse"] :
            l \in ModelVerseLines, m \in ModelVerseLines}
    \cup {[role |-> <<>>,
           lines |-> << [text |-> <<"b","e","z">>, chords |-> <<>>,
                         original_line |-> <<"b","e","z">>] >>,
           verse_type |-> "comment"],
          [role |-> <<"K",".">>, lines |-> <<>>, verse_type |-> "verse"]}

ModelCommentTexts == { <<"A","m","e","n">>, <<"(","2","x",")">> }

ModelComments ==
    { <<>> }
    \cup {<<[text |-> t, comment_type |-> ty]>> :
            t \in ModelCommentTexts, ty \in {"general", "inline", "kapodaster"}}
    \cup { <<Comment(<<"A","m","e","n">>), Comment(<<"(","2","x",")">>)>> }

ModelKapodasters ==
    { <<>>, <<"K","a","p","o","d","a","s","t","e","r"," ","I","I">> }

ModelTitles == { <<"S","L","A","V","A">>, <<>> }

Songs ==
    {[title |-> t, verses |-> vs, comments |-> cs, kapodaster |-> kap] :
        t \in {<<"S","L","A","V","A">>},
        vs \in { <<>> } \cup {<<v>> : v \in ModelVerses},
        cs \in ModelComments,
        kap \in ModelKapodasters}

ModelsInit == MapperInit

\* Song.to_chordpro()
SongToChordpro ==
    /\ pc = "calls"
    /\ call.fn = "none"
    /\ \E song \in Songs :
          /\ call' = [fn |-> "Song.to_chordpro", song |-> song]
          /\ result' = Song_to_chordpro(song)
    /\ UNCHANGED <<parser_vars, additional_titles, cli_vars>>

\* the role markers CroatianConfig.__init__ and SlovenianConfig.__init__
\* assign before they call super().__init__()
LanguageRoleMarkers ==
    [hr |-> << <<"K",".","+","Z",".">>, <<"K",".","+","P",".">>,
               <<"K",".">>, <<"Z",".">>, <<"P",".">>, <<"D",".">> >>,
     sl |-> << <<"K",".","+","Z",".">>, <<"P",".","+","Z",".">>,
               <<"K",".">>, <<"Z",".">>, <<"P",".">>, <<"O",".">> >>]

\* role_markers of the instance once LanguageConfig.__init__, which the
\* subclass calls after its own assignments, has run: self.role_markers = []
LanguageConfig_role_markers(assigned_by_subclass) == <<>>

\* the markers of the list, sorted longest first, that text starts with
language_markers_at_start(markers, text) ==
    SelectSeq(sorted_by(markers, [n \in DOMAIN markers |-> 0 - Len(markers[n])]),
              LAMBDA role : startswith(text, role))

\* LanguageConfig.is_role_marker: None is <<>>
is_role_marker(markers, text) ==
    IF language_markers_at_start(markers, strip(text)) = <<>> THEN <<>>
    ELSE Head(language_markers_at_start(markers, strip(text)))

RoleLines ==
    { <<"K",".","+","Z","."," ","a","b">>,
      <<" ","K",".","+","P","."," ","a">>,
      <<"P",".","+","Z","."," ","a">>,
      <<"K","."," ","a","b","c">>,
      <<" "," ","Z","."," ","x"," ">>,
      <<"Z",".">>,
      <<"O","."," ","a">>,
      <<"D","."," ","a">>,
      <<"k","."," ","a">>,
      <<"K"," ","a","b","c">>,
      <<"a"," ","K",".">>,
      <<"a","b","c">>,
      <<" ">>,
      <<>> }

\* PyMuPDFSpanParser._extract_role_marker(line)
ExtractRoleMarker ==
    /\ pc = "calls"
    /\ call.fn = "none"
    /\ \E line \in RoleLines :
          /\ call' = [fn |-> "_extract_role_marker", line |-> line,
                      configured |-> role_markers,
                      role_markers |-> role_markers]
          /\ result' = _extract_role_marker(line)
    /\ UNCHANGED <<parser_vars, additional_titles, cli_vars>>

\* CroatianConfig().is_role_marker(text), SlovenianConfig().is_role_marker(text)
IsRoleMarker ==
    /\ pc = "calls"
    /\ call.fn = "none"
    /\ \E language \in DOMAIN LanguageRoleMarkers, line \in RoleLines :
          /\ call' = [fn |-> "is_role_marker", language |-> language,
                      line |-> line,
                      configured |-> LanguageRoleMarkers[language],
                      role_markers |->
                          LanguageConfig_role_markers(LanguageRoleMarkers[language])]
          /\ result' = is_role_marker(
                           LanguageConfig_role_markers(LanguageRoleMarkers[language]),
                           line)
    /\ UNCHANGED <<parser_vars, additional_titles, cli_vars>>

\* chord-line texts, some with a token that is no chord
ChordSpanTexts ==
    {t \in MapperChordLines : Len(t) <= MaxPad + 3}
    \cup { <<"G"," ","G">>,
           <<"x","G"," ","G">>,
           <<"G"," ","x","C","7"," "," ","C","7">>,
           <<"(","2","x",")"," ","a">>,
           <<>> }

\* PyMuPDFSpanParser.find_chord_positions_in_span(chord_span_text,
\* chord_span_start, chord_span_width)
FindChordPositionsInSpan ==
    /\ pc = "calls"
    /\ call.fn = "none"
    /\ \E chord_span_text \in ChordSpanTexts, chord_span_width \in MapperWidths :
          /\ call' = [fn |-> "find_chord_positions_in_span",
                      chord_span_text |-> chord_span_text,
                      chord_span_start |-> 100,
                      chord_span_width |-> chord_span_width]
          /\ result' = find_chord_positions_in_span(chord_span_text, 100,
                                                    chord_span_width)
    /\ UNCHANGED <<parser_vars, additional_titles, cli_vars>>

\* Song(...) of BaseParser.parse with the title of the classified document
\* put before song_name
BaseParser_parse_title_first(classified_document, customized_verses, name) ==
    [title |-> IF classified_document.title # <<>>
               THEN classified_document.title ELSE name,
     verses |-> customized_verses,
     comments |-> [n \in DOMAIN classified_document.comments |->
                      Comment(classified_document.comments[n])],
     kapodaster |-> classified_document.kapodaster]

\* BaseParser.parse, step 7: the Song made of the classified document the
\* text classifier returned, the verses apply_customizations returned and
\* song_name (None is <<>>)
BaseParser_parse(classified_document, customized_verses, name) ==
    [title |-> IF name # <<>> THEN name ELSE classified_document.title,
     verses |-> customized_verses,
     comments |-> [n \in DOMAIN classified_document.comments |->
                      Comment(classified_document.comments[n])],
     kapodaster |-> classified_document.kapodaster]

\* ParsedDocument values as the text classifier may return them
ClassifiedDocuments ==
    {[title |-> t, comments |-> cs, kapodaster |-> kap] :
        t \in ModelTitles,
        cs \in { <<>> } \cup {<<c>> : c \in ModelCommentTexts}
               \cup {<<c, d>> : c \in ModelCommentTexts, d \in ModelCommentTexts},
        kap \in ModelKapodasters}

ModelSongNames == { <<>>, <<"S","L","A","V","A">>, <<"I","m","e">> }

\* BaseParser.parse(pdf_path, song_name)
BaseParserParse ==
    /\ pc = "calls"
    /\ call.fn = "none"
    /\ \E classified_document \in ClassifiedDocuments,
          customized_verses \in { <<>> } \cup {<<v>> : v \in ModelVerses},
          name \in ModelSongNames :
          /\ call' = [fn |-> "BaseParser.parse",
                      classified_document |-> classified_document,
                      customized_verses |-> customized_verses,
                      song_name |-> name]
          /\ result' = BaseParser_parse(classified_document, customized_verses,
                                        name)
    /\ UNCHANGED <<parser_vars, additional_titles, cli_vars>>

MaxFragments == 3

\* the y of the fragments are in half pixels: 50, 50.5 and 51
half_pixels == 2

\* chord-line fragments: 'G' at x 100..108, 'C7' at x 110..124, right of
\* 'G' by 2, and ' a D ' at x 130..150
Fragments ==
    {[text |-> f.text, text_content |-> strip(f.text), x_start |-> f.x_start,
      x_end |-> f.x_end, width |-> f.x_end - f.x_start, y |-> y,
      font_size |-> 11, is_pink |-> TRUE] :
        f \in {[text |-> <<"G">>, x_start |-> 100, x_end |-> 108],
               [text |-> <<"C","7">>, x_start |-> 110, x_end |-> 124],
               [text |-> <<" ","a"," ","D"," ">>, x_start |-> 130, x_end |-> 150]},
        y \in {50 * half_pixels, 50 * half_pixels + 1, 51 * half_pixels}}

\* the lists of at most MaxFragments fragments; src is the fragment's place
\* in the list
FragmentLists ==
    UNION {{[n \in 1..len |->
                [text |-> fs[n].text, text_content |-> fs[n].text_content,
                 x_start |-> fs[n].x_start, x_end |-> fs[n].x_end,
                 width |-> fs[n].width, y |-> fs[n].y,
                 font_size |-> fs[n].font_size, is_pink |-> fs[n].is_pink,
                 src |-> {n}]] :
              fs \in [1..len -> Fragments]} : len \in 1..MaxFragments}

\* PyMuPDFSpanParser._combine_chord_lines_by_y_position(chord_lines)
CombineChordLinesByYPosition ==
    /\ pc = "calls"
    /\ call.fn = "none"
    /\ \E lines \in FragmentLists :
          /\ call' = [fn |-> "_combine_chord_lines_by_y_position",
                      chord_lines |-> lines]
          /\ result' = combined_lines(group_by_y_in(<<>>, lines, half_pixels))
    /\ UNCHANGED <<parser_vars, additional_titles, cli_vars>>

MaxChords == 2

ModelChordNames == { <<"G">>, <<"C","7">> }

\* lyric texts, blank ones among them
ModelLyrics ==
    { <<"a","b","c">>, <<"a"," ","b">>, <<" ","a">>, <<>>, <<" "," ">> }

\* the chord lists of at most MaxChords chords at offsets from before the
\* text to behind it
ModelChordLists(text) ==
    UNION {[1..n -> {[chord |-> c, position |-> p, pixel_x |-> 100] :
                        c \in ModelChordNames, p \in (0 - 1)..(Len(text) + 1)}] :
           n \in 0..MaxChords}

\* VerseLine(text, chords, text).to_chordpro()
VerseLineToChordpro ==
    /\ pc = "calls"
    /\ call.fn = "none"
    /\ \E text \in ModelLyrics :
          \E chords \in ModelChordLists(text) :
              /\ call' = [fn |-> "VerseLine.to_chordpro", text |-> text,
                          chords |-> chords]
              /\ result' = VerseLine_to_chordpro(
                               [text |-> text, chords |-> chords,
                                original_line |-> text])
    /\ UNCHANGED <<parser_vars, additional_titles, cli_vars>>

\* PyMuPDFSpanParser._position_chords_in_lyrics(chords, lyric_text)
PositionChordsInLyrics ==
    /\ pc = "calls"
    /\ call.fn = "none"
    /\ \E text \in ModelLyrics :
          \E chords \in ModelChordLists(text) :
              /\ call' = [fn |-> "_position_chords_in_lyrics", text |-> text,
                          chords |-> chords]
              /\ result' = _position_chords_in_lyrics(chords, text)
    /\ UNCHANGED <<parser_vars, additional_titles, cli_vars>>

\* the call returns: the caller is free to make the next one
ModelsReturn ==
    /\ pc = "calls"
    /\ call.fn # "none"
    /\ call' = [fn |-> "none"]
    /\ result' = <<>>
    /\ UNCHANGED <<parser_vars, additional_titles, cli_vars>>

ModelsNext ==
    \/ SongToChordpro
    \/ VerseLineToChordpro
    \/ PositionChordsInLyrics
    \/ ExtractRoleMarker
    \/ IsRoleMarker
    \/ FindChordPositionsInSpan
    \/ CombineChordLinesByYPosition
    \/ BaseParserParse
    \/ ModelsReturn

ModelsSpec == ModelsInit /\ [][ModelsNext]_vars

----------------------------------------------------------------------------
(* main() of pymupdf_span_parser.py run without --output: the invocations  *)
(* of the command line share the file 04_chordpro/.song_counter.           *)

Digits == <<"0","1","2","3","4","5","6","7","8","9">>

\* str(n) for n >= 0
RECURSIVE str(_)
str(n) == IF n < 10 THEN <<Digits[n + 1]>>
          ELSE str(n \div 10) \o <<Digits[(n % 10) + 1]>>

digit_value(c) == (CHOOSE d \in DOMAIN Digits : Digits[d] = c) - 1

is_digits(s) ==
    /\ s # <<>>
    /\ \A n \in DOMAIN s : \E d \in DOMAIN Digits : Digits[d] = s[n]

\* int(s) of a string of digits
RECURSIVE int(_)
int(s) == IF s = <<>> THEN 0
          ELSE 10 * int(SubSeq(s, 1, Len(s) - 1)) + digit_value(s[Len(s)])

\* counter = int(f.read().strip()), and 1 when that raises
read_counter(content) ==
    IF is_digits(strip(content)) THEN int(strip(content)) ELSE 1

\* the number with leading zeros and a dash: 001-, 012-, 123-
number_prefix_of(counter) ==
    (IF counter < 10 THEN <<"0","0">>
     ELSE IF counter < 100 THEN <<"0">> ELSE <<>>)
    \o str(counter) \o <<"-">>

\* the file after text was written at its start through a handle of its own
written_at_start(content, text) ==
    text \o SubSeq(content, Len(text) + 1, Len(content))

CliProcesses == {1, 2}

\* the counter file before the invocations: absent, or left by a run before
CounterFiles ==
    { [exists |-> FALSE, content |-> <<>>],
      [exists |-> TRUE, content |-> <<"5">>],
      [exists |-> TRUE, content |-> <<"9">>],
      [exists |-> TRUE, content |-> <<"9","9">>] }

CounterInit ==
    /\ doc = <<>>
    /\ song_name = <<>>
    /\ pc = "main"
    /\ k = 0
    /\ raw_chord_lines = <<>>
    /\ chord_lines = <<>>
    /\ text_lines = <<>>
    /\ title_lines = <<>>
    /\ kapodaster_lines = <<>>
    /\ comment_lines = <<>>
    /\ title = <<>>
    /\ kapodaster = <<>>
    /\ comments = <<>>
    /\ text_lines_sorted = <<>>
    /\ processed_indices = {}
    /\ i = 0
    /\ current_role = <<>>
    /\ current_verse_lines = <<>>
    /\ verses = <<>>
    /\ result = <<>>
    /\ additional_titles = <<>>
    /\ counter_file \in CounterFiles
    /\ call = [fn |-> "main", counter_file |-> counter_file]
    /\ cli = [p \in CliProcesses |->
                [pc |-> "exists", counter |-> 0, number_prefix |-> <<>>]]

\* if os.path.exists(counter_file): ... else: counter = 1
CheckExists(p) ==
    /\ pc = "main"
    /\ cli[p].pc = "exists"
    /\ cli' = [cli EXCEPT ![p] =
                  IF counter_file.exists
                  THEN [@ EXCEPT !.pc = "read"]
                  ELSE [@ EXCEPT !.pc = "format", !.counter = 1]]
    /\ UNCHANGED <<parser_vars, additional_titles, call, result, counter_file>>

\* with open(counter_file, 'r') as f: counter = int(f.read().strip())
ReadCounter(p) ==
    /\ pc = "main"
    /\ cli[p].pc = "read"
    /\ cli' = [cli EXCEPT ![p] =
                  [@ EXCEPT !.pc = "format",
                            !.counter = read_counter(counter_file.content)]]
    /\ UNCHANGED <<parser_vars, additional_titles, call, result, counter_file>>

\* number_prefix = ...; counter += 1
FormatAndIncrement(p) ==
    /\ pc = "main"
    /\ cli[p].pc = "format"
    /\ cli' = [cli EXCEPT ![p] =
                  [@ EXCEPT !.pc = "open",
                            !.number_prefix = number_prefix_of(cli[p].counter),
                            !.counter = cli[p].counter + 1]]
    /\ UNCHANGED <<parser_vars, additional_titles, call, result, counter_file>>

\* os.makedirs(...); open(counter_file, 'w'): the file is there and empty
OpenForWrite(p) ==
    /\ pc = "main"
    /\ cli[p].pc = "open"
    /\ counter_file' = [exists |-> TRUE, content |-> <<>>]
    /\ cli' = [cli EXCEPT ![p].pc = "write"]
    /\ UNCHANGED <<parser_vars, additional_titles, call, result>>

\* f.write(str(counter)) and the end of the with block
WriteCounter(p) ==
    /\ pc = "main"
    /\ cli[p].pc = "write"
    /\ counter_file' = [counter_file EXCEPT
                           !.content = written_at_start(@, str(cli[p].counter))]
    /\ cli' = [cli EXCEPT ![p].pc = "done"]
    /\ UNCHANGED <<parser_vars, additional_titles, call, result>>

CounterNext ==
    \E p \in CliProcesses :
        \/ CheckExists(p)
        \/ ReadCounter(p)
        \/ FormatAndIncrement(p)
        \/ OpenForWrite(p)
        \/ WriteCounter(p)

CounterSpec == CounterInit /\ [][CounterNext]_vars

----------------------------------------------------------------------------
(* Views of the state the properties are stated over.                      *)

\* the VerseLines of a list of verses
verse_lines_of(vs) ==
    UNION {{vs[v].lines[l] : l \in DOMAIN vs[v].lines} : v \in DOMAIN vs}

\* every VerseLine built so far: in a finished verse or in the open one
stored_verse_lines ==
    verse_lines_of(verses)
    \cup {current_verse_lines[l] : l \in DOMAIN current_verse_lines}

\* the y of the document lines a record was made from
y_of_src(src) ==
    doc[MinOf(src)].y + doc[MinOf(src)].page_num * doc[MinOf(src)].page_height

\* where the document line n has been put: (list, index) pairs
placed_in(name, lines, n) ==
    {<<name, j>> : j \in {j \in DOMAIN lines : n \in lines[j].src}}

placements(n) ==
    placed_in("chord", raw_chord_lines, n)
    \cup placed_in("title", title_lines, n)
    \cup placed_in("kapodaster", kapodaster_lines, n)
    \cup placed_in("comment", comment_lines, n)
    \cup placed_in("text", text_lines, n)

is_blank(n) == strip(doc[n].text) = <<>>
pink_line(n) == _is_pink_color(doc[n].color)
in_parentheses(n) ==
    /\ startswith(strip(doc[n].text), <<"(">>)
    /\ endswith(strip(doc[n].text), <<")">>)

K_First == <<"K","."," ","F","i","r","s","t">>
Z_Second == <<"Z","."," ","S","e","c","o","n","d">>
comment_in_parentheses == <<"(","c","o","m","m","e","n","t",")">>

\* the document of the scenario: K. First / Z. Second / (comment)
scenario_document ==
    /\ Len(doc) = 3
    /\ doc[1].text = K_First
    /\ doc[2].text = Z_Second
    /\ doc[3].text = comment_in_parentheses

\* the text lines in page order that lie before the first role-marker line
has_marker(a) == _extract_role_marker(text_lines_sorted[a].text) # <<>>

lines_before_roles ==
    IF \A a \in DOMAIN text_lines_sorted : ~has_marker(a)
    THEN text_lines_sorted
    ELSE SubSeq(text_lines_sorted, 1,
                MinOf({a \in DOMAIN text_lines_sorted : has_marker(a)}) - 1)

\* the text after the role marker of a stripped line
remainder_of(t) ==
    strip(SubSeq(strip(t), Len(_extract_role_marker(t)) + 1, Len(strip(t))))

----------------------------------------------------------------------------
(* The properties.                                                         *)

\* C1 (as stated): every chord stored in a VerseLine has an offset within
\* its line's bounds, 0 <= position <= len(text).
C1_ChordOffsetsWithinLine ==
    \A vl \in stored_verse_lines : \A c \in DOMAIN vl.chords :
        vl.chords[c].position \in 0..Len(vl.text)

\* C2 (as stated): a lyric line takes chords from a chord line only if no
\* text line lies between the two, and no chord line gives chords to two
\* lyric lines.
C2_ChordsFromTheLineDirectlyAbove ==
    /\ \A vl \in stored_verse_lines : \A c \in DOMAIN vl.chords :
          \A t \in DOMAIN text_lines :
             ~ /\ y_of_src(vl.chords[c].from) < text_lines[t].y
               /\ text_lines[t].y < y_of_src(vl.src)
    /\ \A v1, v2 \in stored_verse_lines :
          \A c1 \in DOMAIN v1.chords : \A c2 \in DOMAIN v2.chords :
             v1.chords[c1].from = v2.chords[c2].from => v1.src = v2.src

C5_UnattributedVerseHoldsLeadingLines ==
    pc = "done" =>
        /\ \A v \in DOMAIN verses : verses[v].role = <<>> => v = 1
        /\ IF lines_before_roles = <<>>
           THEN \A v \in DOMAIN verses : verses[v].role # <<>>
           ELSE /\ verses # <<>>
                /\ verses[1].role = <<>>
                /\ [l \in DOMAIN verses[1].lines |-> verses[1].lines[l].src]
                   = [l \in DOMAIN lines_before_roles |->
                         lines_before_roles[l].src]

\* C6 (as stated): a role-marker line with text after the marker starts a
\* verse whose first VerseLine is exactly that text.
C6_FirstLineIsTheRemainder ==
    /\ pc = "verses"
    /\ i > 0
    /\ has_marker(i)
    /\ remainder_of(text_lines_sorted[i].text) # <<>>
    => /\ current_role = _extract_role_marker(text_lines_sorted[i].text)
       /\ current_verse_lines # <<>>
       /\ current_verse_lines[1].text = remainder_of(text_lines_sorted[i].text)

\* C7: every line read so far is in exactly one of the five lists when it
\* is not blank, in none when it is, and in text_lines when no test of the
\* chain holds for it.
C7_ClassificationTotalAndExclusive ==
    \A n \in 1..k :
        IF is_blank(n) THEN placements(n) = {}
        ELSE /\ Cardinality(placements(n)) = 1
             /\ ( /\ ~_is_chord_line_text(doc[n].text)
                  /\ ~_is_title_line(doc[n].text, doc[n].size, pink_line(n))
                  /\ ~_is_kapodaster_line(doc[n].text, pink_line(n))
                  /\ ~_is_comment_line_enhanced(doc[n].text, pink_line(n)) )
                => placed_in("text", text_lines, n) # {}

\* a page of three lines was read into three different lists
C7_Witness ==
    /\ k = 3
    /\ Len(raw_chord_lines) = 1
    /\ Len(title_lines) = 1
    /\ Len(text_lines) = 1

\* C8 (as stated): a pink line in parentheses is classified as Comment and
\* never as Title.
C8_PinkParentheticalIsComment ==
    \A n \in 1..k :
        pink_line(n) /\ in_parentheses(n) =>
            /\ placed_in("title", title_lines, n) = {}
            /\ \/ placed_in("comment", comment_lines, n) # {}
               \/ placed_in("text", text_lines, n) # {}

\* C9 (as stated): a line with 'kapodaster' or 'kapo' in it, in any case,
\* is never a Title, and is a Kapodaster line when pink and not a chord line.
C9_CapoKeywordNeverTitle ==
    \A n \in 1..k :
        \/ contains(lower(doc[n].text), kapodaster_word)
        \/ contains(lower(doc[n].text), kapo_word)
        => /\ placed_in("title", title_lines, n) = {}
           /\ pink_line(n) /\ placed_in("chord", raw_chord_lines, n) = {}
              => placed_in("kapodaster", kapodaster_lines, n) # {}

\* C10: a line read is a chord line exactly when more than 60% of its
\* words are chords (5 * chords > 3 * words), and a line with that many
\* chords is never a title line.
C10_ChordLineIffOver60Percent ==
    \A n \in 1..k :
        /\ placed_in("chord", raw_chord_lines, n) # {}
           <=> 5 * Cardinality({w \in DOMAIN split(doc[n].text) :
                                  _looks_like_chord(split(doc[n].text)[w])})
               > 3 * Len(split(doc[n].text))
        /\ placed_in("chord", raw_chord_lines, n) # {}
           => placed_in("title", title_lines, n) = {}

\* a line with 3 chords among 5 words was read as a text line
C10_Witness ==
    /\ k = 1
    /\ Len(split(doc[1].text)) = 5
    /\ Cardinality({w \in 1..5 : _looks_like_chord(split(doc[1].text)[w])}) = 3
    /\ Len(text_lines) = 1
    /\ raw_chord_lines = <<>>

\* the y of the chord lines strictly above y, and the lowest of them
chord_ys_above(y) ==
    {chord_lines[j].y : j \in {j \in DOMAIN chord_lines : chord_lines[j].y < y}}

nearest_chord_y(y) ==
    CHOOSE c \in chord_ys_above(y) : \A d \in chord_ys_above(y) : c >= d

\* a VerseLine that is a {comment: ...} directive
is_directive(vl) ==
    \/ startswith(vl.text, <<"{","c","o","m","m","e","n","t",":">>)
    \/ startswith(vl.text, <<"\n","{","c","o","m","m","e","n","t",":">>)

\* C11: a VerseLine with no chord line strictly above it, or with the
\* nearest one more than 18 above, has no chords; with the nearest one at
\* most 18 above (18 included) a lyric line has chords, all from that line.
C11_NoChordsBeyondMaxDistance ==
    \A vl \in stored_verse_lines :
        IF chord_ys_above(y_of_src(vl.src)) = {}
        THEN vl.chords = <<>>
        ELSE IF y_of_src(vl.src) - nearest_chord_y(y_of_src(vl.src)) > 18
        THEN vl.chords = <<>>
        ELSE is_directive(vl)
             \/ /\ vl.chords # <<>>
                /\ \A c \in DOMAIN vl.chords :
                      y_of_src(vl.chords[c].from)
                      = nearest_chord_y(y_of_src(vl.src))

\* a lyric line took the chords of a chord line exactly 18 above it
C11_Witness ==
    /\ pc = "done"
    /\ \E vl \in verse_lines_of(verses) :
          /\ chord_ys_above(y_of_src(vl.src)) # {}
          /\ y_of_src(vl.src) - nearest_chord_y(y_of_src(vl.src)) = 18
          /\ Len(vl.chords) = 2

\* C12 (as stated): map_chords_proportionally gives each chord the integer
\* nearest to (chord_start / effective length) * len(text): twice the
\* distance of position * effective length from chord_start * len(text) is
\* at most the effective length.
C12_ProportionalOffsetIsRounded ==
    call.fn = "map_chords_proportionally" =>
        \A c \in DOMAIN result :
            2 * Abs(result[c].position * Len(rstrip(call.chord_line))
                    - result[c].chord_start
                      * Len(ProportionalMapper_text_content(call.text_line)))
            <= Len(rstrip(call.chord_line))

\* the column of the full line that the offset p of its lyric text is at
column_of(vl, p) == p + (Len(vl.original_line) - Len(vl.text))

slava_document ==
    /\ Len(doc) = 2
    /\ doc[1].text = G_C7_line
    /\ doc[2].text = K_Slava_Bogu_na_visini

\* C13 (as stated): with the chord line "   G       C7" directly above
\* "K. Slava Bogu na visini", same size and left edge, the line carries G just
\* before the character at column 3 of the line and C7 just before the
\* character at column 11, both offsets within the text, G's below C7's.
C13_ChordsPrecedeTheirColumns ==
    (pc = "done" /\ slava_document) =>
        \A vl \in verse_lines_of(verses) :
            /\ Len(vl.chords) = 2
            /\ vl.chords[1].chord = <<"G">>
            /\ vl.chords[2].chord = <<"C","7">>
            /\ column_of(vl, vl.chords[1].position) = 3
            /\ column_of(vl, vl.chords[2].position) = 11
            /\ \A c \in 1..2 : vl.chords[c].position \in 0..Len(vl.text)
            /\ vl.chords[1].position < vl.chords[2].position

\* the chords of the chord line with the given source lines, left to right,
\* each with its pixel position
chords_left_to_right(line) ==
    [n \in DOMAIN find_chord_positions_in_span(line.text, line.x_start, line.width) |->
        <<find_chord_positions_in_span(line.text, line.x_start, line.width)[n].chord,
          <<find_chord_positions_in_span(line.text, line.x_start, line.width)[n].num,
            find_chord_positions_in_span(line.text, line.x_start, line.width)[n].den>> >>]

chords_in_list_order(vl) ==
    [c \in DOMAIN vl.chords |-> <<vl.chords[c].chord, vl.chords[c].x_coord>>]

\* C14: in every VerseLine the chord offsets never decrease along the list,
\* and the list holds the chords in the order they stand in the chord line,
\* left to right, chords of equal offset included.
C14_ChordsInOffsetAndLineOrder ==
    \A vl \in stored_verse_lines :
        /\ \A c \in 1..(Len(vl.chords) - 1) :
              vl.chords[c].position <= vl.chords[c + 1].position
        /\ vl.chords # <<>> =>
              \E b \in DOMAIN chord_lines :
                  /\ chord_lines[b].src = vl.chords[1].from
                  /\ chords_in_list_order(vl) = chords_left_to_right(chord_lines[b])

C14_Witness ==
    /\ pc = "done"
    /\ \E vl \in verse_lines_of(verses) :
          \E c \in 1..(Len(vl.chords) - 1) :
              /\ vl.chords[c].position = vl.chords[c + 1].position
              /\ vl.chords[c].chord # vl.chords[c + 1].chord
              /\ vl.chords[c].x_coord # vl.chords[c + 1].x_coord

\* the chord of the call stands at or beyond the right end of the lyric text
span_chord_beyond_text ==
    /\ call.fn = "map_chord_to_verse_position"
    /\ call.verse_span_width > 0
    /\ call.chord_x >= call.verse_span_start + call.verse_span_width
    /\ 1000 * call.chord_x
       >= 1000 * call.verse_span_start
          + actual_text_width(call.verse_text, call.font_size)

pixel_chord_beyond_text ==
    /\ call.fn = "find_char_position_from_pixel"
    /\ 1000 * call.chord_x
       >= 1000 * call.text_start_x + actual_text_width(call.text, call.font_size)

hybrid_chord_beyond_text(c) ==
    /\ call.fn = "correct_chord_positions"
    /\ result[c].chord_start >= Len(ProportionalMapper_text_content(call.text_line))

C15_SpanMapperPlacesAtEnd ==
    span_chord_beyond_text => result = Len(call.verse_text)

C15_PixelMapperPlacesAtEnd ==
    pixel_chord_beyond_text => result = Len(call.text)

C15_HybridMapperPlacesAtEnd ==
    call.fn = "correct_chord_positions" =>
        /\ Len(result) = Len(chord_words_from(call.chord_line, 0))
        /\ \A c \in DOMAIN result :
              hybrid_chord_beyond_text(c) =>
                  result[c].position
                  = Len(ProportionalMapper_text_content(call.text_line))

\* C15 (as stated): in each of the three pixel mappers a chord standing at or
\* beyond the right end of the lyric text gets the offset len(text); it is
\* not dropped and gets no smaller offset.
C15_ChordBeyondTextPlacedAtEnd ==
    /\ C15_SpanMapperPlacesAtEnd
    /\ C15_PixelMapperPlacesAtEnd
    /\ C15_HybridMapperPlacesAtEnd

\* the lyric line the VerseLine was made from has a box of width 0
degenerate_box(vl) == \A n \in vl.src : doc[n].x1 = doc[n].x0

\* C16: every chord mapped onto a lyric line whose bounding box has width 0
\* gets offset 0 (and the parse goes on to its end: see the witness).
C16_DegenerateBoxGivesOffsetZero ==
    \A vl \in stored_verse_lines :
        degenerate_box(vl) =>
            \A c \in DOMAIN vl.chords : vl.chords[c].position = 0

C16_Witness ==
    /\ pc = "done"
    /\ \E vl \in verse_lines_of(verses) :
          /\ degenerate_box(vl)
          /\ Len(vl.chords) = 2
          /\ vl.chords[2].x_coord[1] > doc[MinOf(vl.src)].x0 * vl.chords[2].x_coord[2]

\* the text of a topmost line of the list: no line of the list has a smaller y
topmost_texts(lines) ==
    {strip(lines[t].text) : t \in {t \in DOMAIN lines :
                                      \A u \in DOMAIN lines : lines[t].y <= lines[u].y}}

song_assembled == pc \in {"verses", "done"}

\* C17: once the song is assembled its title is the text of the topmost
\* Title line if there is one, whatever name the caller gave, and otherwise
\* the caller's name, or "Untitled Song" when that is empty; its kapodaster
\* is the text of the topmost Kapodaster line, or empty.
C17_TitleAndKapodasterFromTopmostLine ==
    song_assembled =>
        /\ title_lines # <<>> => title \in topmost_texts(title_lines)
        /\ (title_lines = <<>> /\ song_name # <<>>) => title = song_name
        /\ (title_lines = <<>> /\ song_name = <<>>) => title = untitled_song
        /\ kapodaster_lines # <<>> => kapodaster \in topmost_texts(kapodaster_lines)
        /\ kapodaster_lines = <<>> => kapodaster = <<>>

\* two Title lines and two Kapodaster lines, the topmost of each met second,
\* and a caller's name that is not used
C17_Witness ==
    /\ pc = "done"
    /\ song_name # <<>>
    /\ Len(title_lines) = 2
    /\ title_lines[2].y < title_lines[1].y
    /\ title = strip(title_lines[2].text)
    /\ title # strip(title_lines[1].text)
    /\ Len(kapodaster_lines) = 2
    /\ kapodaster_lines[2].y < kapodaster_lines[1].y
    /\ kapodaster = strip(kapodaster_lines[2].text)

\* the document line n opens a comment: it starts with "(" and does not end
\* with ")"
opens_comment(n) ==
    /\ startswith(strip(doc[n].text), <<"(">>)
    /\ ~endswith(strip(doc[n].text), <<")">>)

\* the document line n is a Comment line that ends the comment
closes_comment(n) ==
    /\ \E j \in DOMAIN comment_lines : n \in comment_lines[j].src
    /\ endswith(strip(doc[n].text), <<")">>)

\* C18 (as stated): Song.comments holds the text of every Comment line, in
\* top-to-bottom order, and a line that opens a comment with "(" without
\* closing it is in one comment together with the Comment line that follows
\* and closes it.
C18_CommentsJoinedAndInOrder ==
    song_assembled =>
        /\ \A j \in DOMAIN comment_lines :
              \E c \in DOMAIN comments :
                  contains(comments[c], strip(comment_lines[j].text))
        /\ \A j1, j2 \in DOMAIN comment_lines :
              comment_lines[j1].y < comment_lines[j2].y =>
                  \E c1, c2 \in DOMAIN comments :
                      /\ c1 <= c2
                      /\ contains(comments[c1], strip(comment_lines[j1].text))
                      /\ contains(comments[c2], strip(comment_lines[j2].text))
        /\ \A n \in 1..(Len(doc) - 1) :
              (opens_comment(n) /\ closes_comment(n + 1)) =>
                  \E c \in DOMAIN comments :
                      /\ contains(comments[c], strip(doc[n].text))
                      /\ contains(comments[c], strip(doc[n + 1].text))

\* every line record the extraction has made
line_records ==
    {raw_chord_lines[n] : n \in DOMAIN raw_chord_lines}
    \cup {title_lines[n] : n \in DOMAIN title_lines}
    \cup {kapodaster_lines[n] : n \in DOMAIN kapodaster_lines}
    \cup {comment_lines[n] : n \in DOMAIN comment_lines}
    \cup {text_lines[n] : n \in DOMAIN text_lines}

page_of(line) == doc[MinOf(line.src)].page_num

\* C19 (as stated): the adjusted y of a line on a page is below the adjusted
\* y of every line on a later page, whatever the heights of the pages, so the
\* text lines sorted by y come page by page.
C19_AdjustedYFollowsPageOrder ==
    /\ \A r1, r2 \in line_records :
          page_of(r1) < page_of(r2) => r1.y < r2.y
    /\ \A a, b \in DOMAIN text_lines_sorted :
          a < b => page_of(text_lines_sorted[a]) <= page_of(text_lines_sorted[b])

\* C20 (as stated): what parse_and_export returns for a document on an
\* instance that has parsed other documents before is what a freshly
\* constructed instance, whose additional_titles is empty, returns for it.
C20_ParsesAreIndependent ==
    call.fn = "parse_and_export" =>
        result = special_parse_and_export(call.title_lines, call.song_name, <<>>)

\* the place of the document line n in reading order: page first, then y
reading_key(n) == doc[n].page_num * 1000000 + doc[n].y

\* the document line the VerseLine was made from
line_of(vl) == MinOf(vl.src)

is_role_verse(v) == v.role # <<>>

role_verses == SelectSeq(verses, is_role_verse)

\* the text lines (indices of text_lines) that carry a role marker
marker_lines == {t \in DOMAIN text_lines : _extract_role_marker(text_lines[t].text) # <<>>}

\* the text lines that follow the text line t in reading order
text_lines_after(t) ==
    {u \in DOMAIN text_lines :
        reading_key(line_of(text_lines[u])) > reading_key(line_of(text_lines[t]))}

\* the text line next after t in reading order (0: none)
next_text_line(t) ==
    IF text_lines_after(t) = {} THEN 0
    ELSE CHOOSE u \in text_lines_after(t) :
            \A w \in text_lines_after(t) :
                reading_key(line_of(text_lines[u])) <= reading_key(line_of(text_lines[w]))

\* the first lyric line of the verse the marker line t opens: the line
\* itself when it holds text after the marker, else the next text line if
\* that is no marker line (0: the verse got no lyric line)
first_lyric_line(t) ==
    IF role_with_text(text_lines[t].text, _extract_role_marker(text_lines[t].text))
    THEN t
    ELSE IF next_text_line(t) # 0 /\ next_text_line(t) \notin marker_lines
    THEN next_text_line(t)
    ELSE 0

\* C21 (as stated): in the finished song the verses with a role stand in the
\* reading order of the document, the lines of each verse stand in reading
\* order, and every role marker that got a lyric line has exactly one verse,
\* the one open at the end of the input included.
C21_VersesInReadingOrderExactlyOnce ==
    pc = "done" =>
        /\ \A v, w \in DOMAIN role_verses :
              v < w => reading_key(line_of(role_verses[v].lines[1]))
                       < reading_key(line_of(role_verses[w].lines[1]))
        /\ \A v \in DOMAIN verses :
              \A l, m \in DOMAIN verses[v].lines :
                  l < m => reading_key(line_of(verses[v].lines[l]))
                           < reading_key(line_of(verses[v].lines[m]))
        /\ \A t \in marker_lines :
              first_lyric_line(t) # 0 =>
                  Cardinality({v \in DOMAIN role_verses :
                      /\ role_verses[v].role
                         = _extract_role_marker(text_lines[t].text)
                      /\ role_verses[v].lines[1].src
                         = text_lines[first_lyric_line(t)].src}) = 1

\* the lines of a text: text.split("\n")
RECURSIVE output_lines_from(_, _)
output_lines_from(s, line) ==
    IF s = <<>> THEN <<line>>
    ELSE IF Head(s) = "\n" THEN <<line>> \o output_lines_from(Tail(s), <<>>)
    ELSE output_lines_from(Tail(s), Append(line, Head(s)))

output_lines(s) == output_lines_from(s, <<>>)

\* the output lines that are lines of a verse of the song
verse_output_lines(song) ==
    UNION {{output_lines(Verse_to_chordpro(song.verses[v]))[n] :
              n \in DOMAIN output_lines(Verse_to_chordpro(song.verses[v]))} \ { <<>> } :
           v \in DOMAIN song.verses}

\* line n of the output is the directive of text t, behind every verse line
directive_after_verses(song, out, t) ==
    \E n \in DOMAIN out :
        /\ out[n] = chordpro_comment(t)
        /\ \A m \in n..Len(out) : out[m] \notin verse_output_lines(song)

\* C22 (as stated): in the text Song.to_chordpro produces, a present
\* kapodaster is a comment directive behind the title directive and every
\* comment of the song is a comment directive behind the verses.
C22_KapodasterAndCommentsAreDirectives ==
    (pc = "calls" /\ call.fn = "Song.to_chordpro") =>
        /\ output_lines(result)[1] = title_directive(call.song.title)
        /\ call.song.kapodaster # <<>> =>
              \E n \in 2..Len(output_lines(result)) :
                  output_lines(result)[n] = chordpro_comment(call.song.kapodaster)
        /\ \A c \in DOMAIN call.song.comments :
              directive_after_verses(call.song, output_lines(result),
                                     call.song.comments[c].text)

\* the output with every [...] group deleted
RECURSIVE without_groups(_, _)
without_groups(s, inside) ==
    IF s = <<>> THEN <<>>
    ELSE IF Head(s) = "[" THEN without_groups(Tail(s), TRUE)
    ELSE IF Head(s) = "]" THEN without_groups(Tail(s), FALSE)
    ELSE IF inside THEN without_groups(Tail(s), TRUE)
    ELSE <<Head(s)>> \o without_groups(Tail(s), FALSE)

\* the [...] groups of the output in order: the name in the brackets and
\* the number of lyric characters before the opening bracket
RECURSIVE groups_of(_, _, _, _)
groups_of(s, inside, name, before) ==
    IF s = <<>> THEN <<>>
    ELSE IF Head(s) = "[" THEN groups_of(Tail(s), TRUE, <<>>, before)
    ELSE IF Head(s) = "]"
    THEN <<[chord |-> name, before |-> before]>>
         \o groups_of(Tail(s), FALSE, <<>>, before)
    ELSE IF inside THEN groups_of(Tail(s), TRUE, Append(name, Head(s)), before)
    ELSE groups_of(Tail(s), FALSE, <<>>, before + 1)

\* the chords of the call as they are to be written: the name and the
\* offset brought into 0..len(text)
expected_groups(chords, text) ==
    [n \in DOMAIN chords |->
        [chord |-> chords[n].chord,
         before |-> Min(Max(chords[n].position, 0), Len(text))]]

times_in(g, s) == Cardinality({n \in DOMAIN s : s[n] = g})

same_groups(s, t) ==
    /\ Len(s) = Len(t)
    /\ \A n \in DOMAIN s : times_in(s[n], s) = times_in(s[n], t)

positioning_call ==
    /\ pc = "calls"
    /\ call.fn \in {"VerseLine.to_chordpro", "_position_chords_in_lyrics"}
    /\ strip(call.text) # <<>>

\* C23: for a non-blank lyric text without brackets, VerseLine.to_chordpro
\* and _position_chords_in_lyrics lose nothing: the output without its
\* [...] groups is the lyric text, every chord is written exactly once as
\* [name], and the lyric characters before its bracket number
\* min(max(offset, 0), len(text)).
C23_ChordPlacementIsLossless ==
    positioning_call =>
        /\ without_groups(result, FALSE) = call.text
        /\ same_groups(groups_of(result, FALSE, <<>>, 0),
                       expected_groups(call.chords, call.text))

\* two chords given later-first, one of them at offset len(text)
C23_Witness ==
    /\ positioning_call
    /\ Len(call.chords) = 2
    /\ call.chords[1].position = Len(call.text)
    /\ call.chords[2].position \in 1..(Len(call.text) - 1)
    /\ call.chords[1].chord # call.chords[2].chord

role_marker_call ==
    /\ pc = "calls"
    /\ call.fn \in {"_extract_role_marker", "is_role_marker"}

\* the configured markers the trimmed line of the call starts with
prefix_markers ==
    {call.configured[n] : n \in
        {m \in DOMAIN call.configured :
            startswith(strip(call.line), call.configured[m])}}

\* C24 (as stated): role-marker extraction returns the longest configured
\* marker that is a prefix of the trimmed line, and no marker when none is
\* a prefix.
C24_LongestPrefixMarker ==
    role_marker_call =>
        IF prefix_markers = {} THEN result = <<>>
        ELSE /\ result \in prefix_markers
             /\ \A m \in prefix_markers : Len(m) <= Len(result)

\* the whitespace token of the text that starts at index n (0-based)
token_at(text, n) ==
    SubSeq(text, n + 1, n + WordEnd(SubSeq(text, n + 1, Len(text))) - 1)

\* index n (0-based) is where a whitespace token of the text starts
token_starts_at(text, n) ==
    /\ ~isspace(text[n + 1])
    /\ n > 0 => isspace(text[n])

\* the start indices of the chord-qualifying tokens, left to right
chord_token_starts(text) ==
    SelectSeq([n \in 1..Len(text) |-> n - 1],
              LAMBDA n : token_starts_at(text, n)
                         /\ _looks_like_chord(token_at(text, n)))

\* C25 (as stated): find_chord_positions_in_span returns one entry per
\* chord-qualifying whitespace token of the text, left to right, each with
\* the index at which that very token starts and with the pixel x
\* span_start + (index / len(text)) * span_width.
C25_EntryPerChordTokenAtItsStart ==
    (pc = "calls" /\ call.fn = "find_chord_positions_in_span") =>
        /\ Len(result) = Len(chord_token_starts(call.chord_span_text))
        /\ \A n \in DOMAIN result :
              /\ result[n].text_pos = chord_token_starts(call.chord_span_text)[n]
              /\ result[n].chord = token_at(call.chord_span_text, result[n].text_pos)
              /\ result[n].num * Len(call.chord_span_text)
                     = result[n].den
                       * (call.chord_span_start * Len(call.chord_span_text)
                          + result[n].text_pos * call.chord_span_width)

\* the chord tokens of the lines, line after line
RECURSIVE tokens_of(_)
tokens_of(lines) ==
    IF lines = <<>> THEN <<>>
    ELSE split(Head(lines).text) \o tokens_of(Tail(lines))

\* the input lines an output line was made of, ordered by x_start
fragments_of(lines, out) ==
    sorted_by(SelectSeq(lines, LAMBDA l : l.src \subseteq out.src),
              [n \in DOMAIN SelectSeq(lines, LAMBDA l : l.src \subseteq out.src) |->
                  SelectSeq(lines, LAMBDA l : l.src \subseteq out.src)[n].x_start])

\* the output lines whose y is less than 1.0 from the y of the input line
groups_near(line, out) ==
    {g \in DOMAIN out : Abs(line.y - out[g].y) < half_pixels}

combine_call ==
    pc = "calls" /\ call.fn = "_combine_chord_lines_by_y_position"

\* C26 (as stated): every input chord line is in exactly one output chord
\* line, the first one whose y is less than 1.0 from its y, and the chord
\* tokens of a merged line are those of its fragments, each a token of its
\* own, in the order of the fragments' x_start.
C26_MergeKeepsEveryChordToken ==
    combine_call =>
        /\ \A n \in DOMAIN call.chord_lines :
              /\ Cardinality({g \in DOMAIN result : n \in result[g].src}) = 1
              /\ \A g \in DOMAIN result :
                    n \in result[g].src =>
                        g = MinOf(groups_near(call.chord_lines[n], result))
        /\ \A g \in DOMAIN result :
              Cardinality(result[g].src) > 1 =>
                  split(result[g].text)
                      = tokens_of(fragments_of(call.chord_lines, result[g]))

parse_call == pc = "calls" /\ call.fn = "BaseParser.parse"

\* C27: BaseParser.parse gives the Song the caller's song_name as title when
\* that is not empty, whatever title the document has, and the title of the
\* classified document otherwise; the kapodaster and the comments, in
\* number and order, are those of the classified document.
C27_SongNameOverridesTitle ==
    parse_call =>
        /\ call.song_name # <<>> => result.title = call.song_name
        /\ call.song_name = <<>> => result.title = call.classified_document.title
        /\ result.kapodaster = call.classified_document.kapodaster
        /\ Len(result.comments) = Len(call.classified_document.comments)
        /\ \A n \in DOMAIN result.comments :
              result.comments[n].text = call.classified_document.comments[n]

\* a song_name given for a document with another title and two comments
C27_Witness ==
    /\ parse_call
    /\ call.song_name # <<>>
    /\ call.classified_document.title \notin {<<>>, call.song_name}
    /\ Len(call.classified_document.comments) = 2
    /\ call.classified_document.comments[1] # call.classified_document.comments[2]
    /\ call.classified_document.kapodaster # <<>>

both_done == pc = "main" /\ \A p \in CliProcesses : cli[p].pc = "done"

\* C28 (as stated): two invocations without --output on one counter file,
\* their steps interleaved in any way, get different number prefixes, and
\* the stored counter ends two above the counter the first read gives.
C28_DistinctPrefixesCounterPlusTwo ==
    both_done =>
        /\ cli[1].number_prefix # cli[2].number_prefix
        /\ counter_file.content
               = str(read_counter(call.counter_file.content) + 2)

\* the places (1-based) of the role-marker lines in text_lines_sorted
sorted_marker_lines ==
    {a \in DOMAIN text_lines_sorted :
        /\ strip(text_lines_sorted[a].text) # <<>>
        /\ _extract_role_marker(text_lines_sorted[a].text) # <<>>}

\* the non-blank lines behind place a
nonblank_after(a) ==
    {b \in DOMAIN text_lines_sorted :
        b > a /\ strip(text_lines_sorted[b].text) # <<>>}

\* the marker line at place a has lyrics: text of its own behind the
\* marker, or a line without marker next to it
has_lyric_line(a) ==
    \/ role_with_text(text_lines_sorted[a].text,
                      _extract_role_marker(text_lines_sorted[a].text))
    \/ /\ nonblank_after(a) # {}
       /\ MinOf(nonblank_after(a)) \notin sorted_marker_lines

\* C29: every verse returned has at least one VerseLine, at most one verse
\* has the empty role, and a role marker with no lyric line before the
\* next marker or the end gives no verse: there are as many verses with a
\* role as marker lines with lyrics, and no VerseLine is made of a marker
\* line without lyrics.
C29_NoEmptyVerses ==
    pc = "done" =>
        /\ \A v \in DOMAIN verses : Len(verses[v].lines) >= 1
        /\ Cardinality({v \in DOMAIN verses : verses[v].role = <<>>}) <= 1
        /\ Len(role_verses)
               = Cardinality({a \in sorted_marker_lines : has_lyric_line(a)})
        /\ \A a \in sorted_marker_lines :
              ~has_lyric_line(a) =>
                  \A vl \in verse_lines_of(verses) :
                      vl.src # text_lines_sorted[a].src

\* a marker line without lyrics in a song that has a verse with a role and
\* a verse without
C29_Witness ==
    /\ pc = "done"
    /\ \E a \in sorted_marker_lines : ~has_lyric_line(a)
    /\ role_verses # <<>>
    /\ \E v \in DOMAIN verses : verses[v].role = <<>>

\* the places <<verse, line>> of the VerseLines made of the text line at
\* place a of text_lines_sorted
verse_lines_made_of(a) ==
    UNION {{<<v, l>> : l \in {m \in DOMAIN verses[v].lines :
                                 verses[v].lines[m].src = text_lines_sorted[a].src}} :
           v \in DOMAIN verses}

\* C30: over all verses together, every non-blank line without a role
\* marker has become exactly one VerseLine and every role-marker line at
\* most one.
C30_EveryLyricLineOnce ==
    pc = "done" =>
        \A a \in DOMAIN text_lines_sorted :
            IF a \in sorted_marker_lines
            THEN Cardinality(verse_lines_made_of(a)) <= 1
            ELSE strip(text_lines_sorted[a].text) # <<>> =>
                     Cardinality(verse_lines_made_of(a)) = 1

\* a marker on a line of its own with two lyric lines behind it, which the
\* look-ahead takes and the loop then passes over
C30_Witness ==
    /\ pc = "done"
    /\ Len(text_lines_sorted) = 3
    /\ 1 \in sorted_marker_lines
    /\ ~role_with_text(text_lines_sorted[1].text,
                       _extract_role_marker(text_lines_sorted[1].text))
    /\ processed_indices = {0, 1, 2}
    /\ Len(verses) = 1
    /\ Len(verses[1].lines) = 2

====
